---------------------------- MODULE Spec2Model ----------------------------
(***************************************************************************)
(* A model of the vigilhome alerting core:                                 *)
(*   - AlertDeduplicator   (src/src/alert_deduplication.py)                *)
(*   - SmartAlertManager   (src/src/smart_alerts.py)                       *)
(*   - RealtimeMonitor     (src/src/realtime_monitor.py)                   *)
(* Time is the wall clock read by datetime.now(), in whole seconds.        *)
(***************************************************************************)
EXTENDS Integers, Sequences, FiniteSets, TLC

(***************************************************************************)
(* Program constants.                                                      *)
(***************************************************************************)
\* AlertDeduplicator.__init__(cooldown_seconds = 300)
Cooldown == 300
\* AlertDeduplicator.cleanup_old(max_age_seconds = 600)
MaxAgeSeconds == 600

(***************************************************************************)
(* Bounds of the model.                                                    *)
(***************************************************************************)
\* the clock stops this many seconds after the process started
MaxTime == 605
\* DetectionState.alert_count is not incremented beyond this value
MaxAlertCount == 2

None == "None"
\* no timestamp: a dict.get() that found nothing (timestamps are >= 0)
NoTime == 0 - 1

Cameras == {"sala", "cozinha"}
Persons == {"augusto", "unknown"}
\* YOLO class names appearing in a detection's 'class' field
Classes == {"person", "dog", "cup"}

\* the `objects' argument: a list of detections, of which only 'class' is read
ObjectLists ==
    {<<>>, <<"person">>, <<"person", "dog">>, <<"cup">>}

VARIABLES
    now,                \* datetime.now()
    active_detections,  \* AlertDeduplicator.active_detections: camera -> DetectionState
    dcall,              \* the AlertDeduplicator call that has just returned
    last_reminder,      \* per camera, when should_alert last answered "still here"
    observed,           \* per camera, whether should_alert has observed it since
                        \* its state was last removed
    true_returns        \* per camera, when should_alert last returned True and
                        \* how often since the state was created, in the runs
                        \* that watch the returns

VARIABLES
    started,            \* datetime.now() when the process was started
    config,             \* SmartAlertManager.config, as loaded by _load_config
    last_alerts,        \* SmartAlertManager.last_alerts: key -> datetime
    active_persons,     \* SmartAlertManager.active_persons: key -> datetime
    daily_images,       \* SmartAlertManager.daily_images
    scall,              \* the SmartAlertManager call that has just returned
    last_arrival,       \* per key, when an arrival alert was last sent
    last_unknown,       \* when an unknown-person alert was last sent
    last_detected       \* per key, when process_detection was last called for
                        \* it, in the runs that watch the departures

VARIABLES
    files,              \* the *.jpg files of each camera directory, oldest first
    processed_images,   \* RealtimeMonitor.processed_images
    last_alert_time,    \* RealtimeMonitor.last_alert_time: camera -> datetime
    stats,              \* RealtimeMonitor.stats
    last_status_time,   \* RealtimeMonitor.last_status_time
    pending_alerts,     \* RealtimeMonitor.pending_alerts
    handed,             \* per image path, how often it was passed to process_image
    monitor_pc          \* run_forever: "running" in its loop, "crashed" once an
                        \* exception has left it

VARIABLES
    running,            \* TextOnlyMonitor.running
    person_present,     \* TextOnlyMonitor.person_present: camera -> bool
    text_last_alert_time, \* TextOnlyMonitor.last_alert_time: camera -> datetime
    workers,            \* per camera, where its monitor_camera coroutine stands
    text_sent,          \* per camera, the messages passed to _send_telegram
    alone               \* per camera, the state of a monitor_camera that is given
                        \* the same images and runs with no other worker

VARIABLES
    events,             \* BehavioralAnalyzer.events
    events_file,        \* the records of behavioral_events.jsonl
    patterns,           \* BehavioralAnalyzer.patterns: key -> BehavioralPattern
    patterns_file,      \* the content of behavioral_patterns.json
    min_baseline_days,  \* BehavioralAnalyzer.min_baseline_days
    acall,              \* the BehavioralAnalyzer call that has just returned
    building            \* the build_baseline in progress, if it runs in steps

clockVars == <<now, started>>
realtimeVars == <<files, processed_images, last_alert_time, stats,
                  last_status_time, pending_alerts, handed, monitor_pc>>
textVars == <<running, person_present, text_last_alert_time, workers,
              text_sent, alone>>
\* the variables of the two monitors
monitorVars == <<realtimeVars, textVars>>
analyzerVars == <<events, events_file, patterns, patterns_file,
                  min_baseline_days, acall, building>>
dedupVars == <<active_detections, dcall, last_reminder, observed, true_returns>>
smartVars == <<config, last_alerts, active_persons, daily_images, scall,
               last_arrival, last_unknown,
                   last_detected>>

vars == <<clockVars, dedupVars, smartVars, monitorVars, analyzerVars>>

NoCall == [op |-> "none"]

(***************************************************************************)
(* The clock.  Steps are chosen on and just past the cooldown, so that a   *)
(* gap can be 0, exactly the cooldown, or one second more, and sums of     *)
(* steps land on and just past the staleness ceiling.                      *)
(***************************************************************************)
DedupSteps == {Cooldown, Cooldown + 1}

Tick(d) ==
    /\ now - started + d <= MaxTime
    /\ now' = now + d
    /\ dcall' = NoCall
    /\ scall' = NoCall
    /\ UNCHANGED <<started, active_detections, last_reminder, observed, true_returns>>
    /\ UNCHANGED <<config, last_alerts, active_persons, daily_images,
                   last_arrival, last_unknown,
                   last_detected>>
    /\ acall' = NoCall
    /\ UNCHANGED monitorVars
    /\ UNCHANGED <<events, events_file, patterns, patterns_file,
                   min_baseline_days, building>>

(***************************************************************************)
(* AlertDeduplicator                                                       *)
(***************************************************************************)
\* set(obj['class'] for obj in objects if obj['class'] != 'person')
CurrentObjects(objects) ==
    {objects[i] : i \in DOMAIN objects} \ {"person"}

\* DetectionState(person_name, objects, last_seen, alert_count)
DetectionState(person, objects, last_seen, alert_count) ==
    [person_name |-> person, objects |-> objects,
     last_seen |-> last_seen, alert_count |-> alert_count]

\* line 57: state.objects = current_objects
TrackedAfterNewObjects(tracked, current_objects) == current_objects

CooldownExpired_ge(time_since_last) == time_since_last >= Cooldown
\* line 63: time_since_last > self.cooldown
CooldownExpired(time_since_last) == time_since_last > Cooldown

LastSeenAfterReminder_kept(last_seen, current_time) == last_seen
\* line 65: state.last_seen = current_time
LastSeenAfterReminder(last_seen, current_time) == current_time

CountAfterChange_same(alert_count) == alert_count
\* line 78: state.alert_count += 1
CountAfterChange(alert_count) == alert_count + 1

\* the branch of should_alert taken for (camera, person, objects)
Branch(camera, person, objects) ==
    IF camera \in DOMAIN active_detections
    THEN LET state == active_detections[camera] IN
         IF state.person_name = person
         THEN IF CurrentObjects(objects) \ state.objects # {}
              THEN "new_objects"
              ELSE IF CooldownExpired(now - state.last_seen)
                   THEN "still_here"
                   ELSE "unchanged"
         ELSE "changed"
    ELSE "arrived"

\* the DetectionState of `camera' after should_alert(camera, person, objects)
StateAfter(camera, person, objects) ==
    LET current_time == now
        current_objects == CurrentObjects(objects)
        b == Branch(camera, person, objects)
    IN  IF b = "arrived"
        THEN DetectionState(person, current_objects, current_time, 1)
        ELSE LET state == active_detections[camera] IN
             CASE b = "new_objects" ->
                    [state EXCEPT
                       !.objects = TrackedAfterNewObjects(state.objects, current_objects),
                       !.last_seen = current_time]
               [] b = "still_here" ->
                    [state EXCEPT
                       !.last_seen = LastSeenAfterReminder(state.last_seen, current_time)]
               [] b = "unchanged" -> [state EXCEPT !.last_seen = current_time]
               [] b = "changed" ->
                    DetectionState(person, current_objects, current_time,
                                   CountAfterChange(state.alert_count))

ReturnOf(b) == b # "unchanged"

Put(f, k, v) == [x \in DOMAIN f \cup {k} |-> IF x = k THEN v ELSE f[x]]
Del(f, ks) == [x \in DOMAIN f \ ks |-> f[x]]

\* should_alert; `watched' says whether the run records its True returns in
\* `true_returns'
Observe(camera, person, objects, watched) ==
    \E b \in {Branch(camera, person, objects)},
       had \in {camera \in DOMAIN active_detections} :
        /\ b = "changed" => active_detections[camera].alert_count < MaxAlertCount
        /\ (watched /\ ReturnOf(b) /\ b # "arrived") =>
              true_returns[camera].count < MaxAlertCount
        /\ true_returns' =
              IF watched /\ ReturnOf(b)
              THEN [true_returns EXCEPT
                      ![camera] = [last |-> now,
                                   count |-> IF b = "arrived" THEN 1
                                             ELSE @.count + 1]]
              ELSE true_returns
        /\ active_detections' =
              Put(active_detections, camera, StateAfter(camera, person, objects))
        /\ dcall' = [op |-> "should_alert", camera |-> camera, person |-> person,
                     current_objects |-> CurrentObjects(objects),
                     had |-> had,
                     pre |-> IF had THEN active_detections[camera] ELSE None,
                     prev_reminder |-> last_reminder[camera],
                     prev_alerted |-> true_returns[camera].last,
                     branch |-> b, ret |-> ReturnOf(b)]
        /\ last_reminder' =
              [last_reminder EXCEPT ![camera] = IF b = "still_here" THEN now ELSE @]
        /\ observed' = [observed EXCEPT ![camera] = TRUE]
        /\ UNCHANGED <<clockVars, smartVars, monitorVars, analyzerVars>>

should_alert(camera, person, objects) == Observe(camera, person, objects, FALSE)

should_alert_watched(camera, person, objects) ==
    Observe(camera, person, objects, TRUE)

AfterMarkLeft_kept(camera) == active_detections
\* lines 93-94: if camera in self.active_detections: del ...
AfterMarkLeft(camera) == Del(active_detections, {camera})

mark_left(camera) ==
    /\ active_detections' = AfterMarkLeft(camera)
    /\ dcall' = [op |-> "mark_left", camera |-> camera,
                 had |-> camera \in DOMAIN active_detections,
                 pre_keys |-> DOMAIN active_detections]
    /\ observed' = [observed EXCEPT ![camera] = FALSE]
    /\ UNCHANGED <<last_reminder, true_returns>>
    /\ UNCHANGED <<clockVars, smartVars, monitorVars, analyzerVars>>

IsStale_ge(age, max_age_seconds) == age >= max_age_seconds
\* line 112: age > max_age_seconds
IsStale(age, max_age_seconds) == age > max_age_seconds

\* lines 110-113: the cameras collected in to_remove
ToRemove(max_age_seconds) ==
    {camera \in DOMAIN active_detections :
        IsStale(now - active_detections[camera].last_seen, max_age_seconds)}

cleanup_old(max_age_seconds) ==
    /\ active_detections' = Del(active_detections, ToRemove(max_age_seconds))
    /\ dcall' = [op |-> "cleanup_old", max_age |-> max_age_seconds,
                 pre_keys |-> DOMAIN active_detections,
                 removed |-> ToRemove(max_age_seconds)]
    /\ observed' = [c \in Cameras |->
                      observed[c] /\ ~(c \in DOMAIN active_detections
                                       /\ c \notin DOMAIN active_detections')]
    /\ UNCHANGED <<last_reminder, true_returns>>
    /\ UNCHANGED <<clockVars, smartVars, monitorVars, analyzerVars>>

(***************************************************************************)
(* SmartAlertManager                                                       *)
(***************************************************************************)
\* strings that the code parses or searches are sequences of characters
UpperChars == <<"A", "B", "C", "D", "E", "F", "G", "H", "I", "J", "K", "L", "M",
                "N", "O", "P", "Q", "R", "S", "T", "U", "V", "W", "X", "Y", "Z">>
LowerChars == <<"a", "b", "c", "d", "e", "f", "g", "h", "i", "j", "k", "l", "m",
                "n", "o", "p", "q", "r", "s", "t", "u", "v", "w", "x", "y", "z">>
DigitChars == <<"0", "1", "2", "3", "4", "5", "6", "7", "8", "9">>

\* str.lower(), one character
LowerChar(ch) ==
    IF \E i \in DOMAIN UpperChars : UpperChars[i] = ch
    THEN LowerChars[CHOOSE i \in DOMAIN UpperChars : UpperChars[i] = ch]
    ELSE ch
\* str.lower()
Lower(str) == [i \in DOMAIN str |-> LowerChar(str[i])]
\* e in str
Contains(str, e) ==
    \E i \in 1..(Len(str) - Len(e) + 1) : SubSeq(str, i, i + Len(e) - 1) = e

SecondsPerDay == 24 * 60 * 60
\* datetime.time(): the time of day of a timestamp, in seconds since midnight
TimeOfDay(t) == t % SecondsPerDay

DigitOf(ch) == (CHOOSE i \in DOMAIN DigitChars : DigitChars[i] = ch) - 1
\* datetime.strptime(text, "%H:%M").time(), in seconds since midnight
ParseHM(text) ==
    (10 * DigitOf(text[1]) + DigitOf(text[2])) * 3600
       + (10 * DigitOf(text[4]) + DigitOf(text[5])) * 60

\* config.get('smart_filtering', {}).get('min_time_between_alerts', 300)
MinTimeBetweenAlerts == 300
\* _has_person_left: "If not seen for 2 minutes, consider left"
LeftAfterSeconds == 120
\* _should_alert_unknown: "Max 1 alert per 5 min"
UnknownLimitSeconds == 300
\* cleanup_old_tracking: 10 minutes
TrackingMaxAge == 600
\* _is_interesting_for_training: len(self.daily_images) >= 20
DailyImagesLimit == 20

\* datetime.min: earlier than every timestamp of a run by more than every
\* interval the code compares with
DatetimeMin == 0 - 1000000

\* emergencies = ['unknown', 'intrusion', 'break', 'glass', 'anomaly']
Emergencies ==
    {<<"u", "n", "k", "n", "o", "w", "n">>,
     <<"i", "n", "t", "r", "u", "s", "i", "o", "n">>,
     <<"b", "r", "e", "a", "k">>,
     <<"g", "l", "a", "s", "s">>,
     <<"a", "n", "o", "m", "a", "l", "y">>}

\* scene descriptions: "ok", "BREAKfast", "brea k"
Descriptions ==
    {<<"o", "k">>,
     <<"B", "R", "E", "A", "K", "f", "a", "s", "t">>,
     <<"b", "r", "e", "a", " ", "k">>}

\* the "HH:MM" texts of the configurations
ClockTexts ==
    {<<"2", "3", ":", "0", "0">>, <<"0", "7", ":", "0", "0">>,
     <<"0", "9", ":", "3", "0">>, <<"1", "7", ":", "4", "5">>}

\* ParseHM of each configured text, computed once
ParsedClock == [text \in ClockTexts |-> ParseHM(text)]
\* any(e in description.lower() for e in emergencies) of each description,
\* computed once
AnyEmergencyIn ==
    [description \in Descriptions |->
        \E e \in Emergencies : Contains(Lower(description), e)]

\* quiet_hours sections of alerts_config.yaml
QuietNight == [enabled |-> TRUE,
               start |-> <<"2", "3", ":", "0", "0">>,
               end |-> <<"0", "7", ":", "0", "0">>]
QuietOff == [QuietNight EXCEPT !.enabled = FALSE]
DefaultConfig == [quiet_hours |-> QuietOff]

IsQuietHours_noWrap(quiet, t) ==
    /\ quiet.enabled
    /\ ParsedClock[quiet.start] <= TimeOfDay(t)
    /\ TimeOfDay(t) <= ParsedClock[quiet.end]
\* lines 129-144, for the quiet_hours section `quiet' at timestamp t
IsQuietHours(quiet, t) ==
    IF ~quiet.enabled
    THEN FALSE
    ELSE LET start == ParsedClock[quiet.start]
             end == ParsedClock[quiet.end]
             current_time == TimeOfDay(t)
         IN  IF start < end
             THEN start <= current_time /\ current_time <= end
             ELSE current_time >= start \/ current_time <= end

_is_quiet_hours == IsQuietHours(config.quiet_hours, now)

_is_emergency_orUnknownPerson(person, description) ==
    person = "unknown" \/ AnyEmergencyIn[description]
\* lines 146-150; `person' is not read
_is_emergency(person, description) == AnyEmergencyIn[description]

\* key = f"{camera}:{person}"
Key(camera, person) == camera \o ":" \o person

WithinArrivalCooldown_none(time_since) == FALSE
\* line 90: time_since < cooldown
WithinArrivalCooldown(time_since) == time_since < MinTimeBetweenAlerts

_is_new_person(camera, person) ==
    LET key == Key(camera, person) IN
    IF key \notin DOMAIN active_persons
    THEN IF key \in DOMAIN last_alerts
         THEN ~WithinArrivalCooldown(now - last_alerts[key])
         ELSE TRUE
    ELSE FALSE

_has_person_left(camera, person) ==
    LET key == Key(camera, person) IN
    /\ key \in DOMAIN active_persons
    /\ now - active_persons[key] > LeftAfterSeconds

\* last_alerts.get('unknown', datetime.min)
LastUnknown ==
    IF "unknown" \in DOMAIN last_alerts THEN last_alerts["unknown"] ELSE DatetimeMin

_should_alert_unknown == now - LastUnknown > UnknownLimitSeconds

_is_interesting_for_training == ~(daily_images >= DailyImagesLimit)

\* which of the returns of process_detection is taken
Outcome(camera, person, description) ==
    IF _is_quiet_hours /\ ~_is_emergency(person, description) THEN "suppressed"
    ELSE IF _is_new_person(camera, person) THEN "arrival"
    ELSE IF _has_person_left(camera, person) THEN "left"
    ELSE IF (person = "unknown" \/ person = "desconhecido") /\ _should_alert_unknown
         THEN "unknown"
    ELSE "none"

\* process_detection; `watched' says whether the run records the time of the
\* call in last_detected
Detection(camera, person, description, watched) ==
    \E key \in {Key(camera, person)}, out \in {Outcome(camera, person, description)} :
        /\ active_persons' =
              CASE out = "arrival" -> Put(active_persons, key, now)
                [] out = "left" -> Del(active_persons, {key})
                [] OTHER -> active_persons
        /\ last_alerts' =
              IF out = "arrival" THEN Put(last_alerts, key, now) ELSE last_alerts
        /\ daily_images' =
              IF out = "none" /\ _is_interesting_for_training
              THEN daily_images + 1
              ELSE daily_images
        /\ scall' = [op |-> "process_detection", camera |-> camera,
                     person |-> person,
                     description |-> description,
                     sent |-> IF out \in {"arrival", "left", "unknown"}
                              THEN out ELSE None,
                     ret |-> IF out \in {"arrival", "left", "unknown"}
                             THEN out ELSE None,
                     changed |-> <<active_persons', last_alerts', daily_images'>>
                                    # <<active_persons, last_alerts, daily_images>>,
                     prev_arrival |-> last_arrival[key],
                     prev_unknown |-> last_unknown,
                     prev_detected |-> last_detected[key]]
        /\ last_detected' =
              IF watched THEN [last_detected EXCEPT ![key] = now]
              ELSE last_detected
        /\ last_arrival' =
              IF out = "arrival" THEN [last_arrival EXCEPT ![key] = now]
              ELSE last_arrival
        /\ last_unknown' = IF out = "unknown" THEN now ELSE last_unknown
        /\ UNCHANGED <<config, clockVars, dedupVars, monitorVars, analyzerVars>>

process_detection(camera, person, description) ==
    Detection(camera, person, description, FALSE)

process_detection_watched(camera, person, description) ==
    Detection(camera, person, description, TRUE)

cleanup_old_tracking ==
    LET to_remove == {key \in DOMAIN active_persons :
                         now - active_persons[key] > TrackingMaxAge}
    IN  /\ active_persons' = Del(active_persons, to_remove)
        /\ scall' = [op |-> "cleanup_old_tracking", removed |-> to_remove]
        /\ UNCHANGED <<config, last_alerts, daily_images, last_arrival, last_unknown,
                   last_detected>>
        /\ UNCHANGED <<clockVars, dedupVars, monitorVars, analyzerVars>>

send_daily_digest ==
    /\ daily_images' = 0
    /\ scall' = [op |-> "send_daily_digest",
                 sent |-> IF daily_images = 0 THEN None ELSE "digest"]
    /\ UNCHANGED <<config, last_alerts, active_persons, last_arrival, last_unknown,
                   last_detected>>
    /\ UNCHANGED <<clockVars, dedupVars, monitorVars, analyzerVars>>

SmartCameras == {"sala"}
SmartPersons == {"augusto", "unknown"}
SmartKeys == {Key(c, p) : c \in SmartCameras, p \in SmartPersons}

SmartInit ==
    /\ last_alerts = [k \in {} |-> NoTime]
    /\ active_persons = [k \in {} |-> NoTime]
    /\ daily_images = 0
    /\ scall = NoCall
    /\ last_arrival = [k \in SmartKeys |-> NoTime]
    /\ last_unknown = NoTime
    /\ last_detected = [k \in SmartKeys |-> NoTime]

\* the clock steps of the SmartAlertManager runs: just past the two minutes of
\* _has_person_left, and the arrival cooldown
SmartSteps == {LeftAfterSeconds + 1, MinTimeBetweenAlerts}

\* the process starts at 06:55:00, five minutes before the quiet hours end
SmartStart == 6 * 3600 + 55 * 60

(***************************************************************************)
(* BehavioralAnalyzer                                                      *)
(***************************************************************************)
\* BehavioralAnalyzer.__init__(min_baseline_days = 7)
MinBaselineDays == 7
\* detect_anomaly: min_distance > 0.3.  Coordinates are kept in hundredths
\* and a centre (x1 + x2) / 2 is kept doubled, so that a position is a pair of
\* integers in two-hundredths: 0.3 is 60
PositionThreshold == 60
\* typical_positions = occurrences[:10]
TypicalPositionsLimit == 10
\* if duration < 30: only gaps under 30 minutes are averaged
ConsecutiveMinutes == 30
\* if len(occurrences) < 2: continue
MinOccurrences == 2
\* frequency / 10: "Cap at 10 occurrences per day"
OccurrencesPerDayCap == 10

\* datetime.hour
Hour(t) == (t % SecondsPerDay) \div 3600
\* the weekday of day 0 of the clock (1 January 1970, a Thursday)
EpochWeekday == 3
\* datetime.weekday(): Monday is 0
Weekday(t) == ((t \div SecondsPerDay) + EpochWeekday) % 7
\* timedelta.days: whole days, rounded towards minus infinity
Days(delta) == delta \div SecondsPerDay

\* the names given to cameras and subjects, as sequences of characters
NameChars ==
    [name \in {"A", "B", "unknown", "hall", "sala", "cozinha",
                "maria", "maria_rita", "rita_sala"} |->
        CASE name = "A" -> <<"A">>
          [] name = "maria" -> <<"m", "a", "r", "i", "a">>
          [] name = "maria_rita" ->
                <<"m", "a", "r", "i", "a", "_", "r", "i", "t", "a">>
          [] name = "rita_sala" -> <<"r", "i", "t", "a", "_", "s", "a", "l", "a">>
          [] name = "B" -> <<"B">>
          [] name = "unknown" -> <<"u", "n", "k", "n", "o", "w", "n">>
          [] name = "hall" -> <<"h", "a", "l", "l">>
          [] name = "sala" -> <<"s", "a", "l", "a">>
          [] name = "cozinha" -> <<"c", "o", "z", "i", "n", "h", "a">>]

\* str(n) of a natural number, as characters
RECURSIVE FormatInt(_)
FormatInt(n) ==
    IF n < 10
    THEN <<DigitChars[n + 1]>>
    ELSE Append(FormatInt(n \div 10), DigitChars[(n % 10) + 1])

\* int(text)
RECURSIVE ParseInt(_)
ParseInt(text) ==
    IF Len(text) = 1
    THEN DigitOf(text[1])
    ELSE 10 * ParseInt(SubSeq(text, 1, Len(text) - 1)) + DigitOf(text[Len(text)])

\* the string made of a sequence of characters
RECURSIVE Text(_)
Text(chars) == IF chars = <<>> THEN "" ELSE chars[1] \o Text(Tail(chars))

\* the position of the last `ch' in chars
LastIndexOf(chars, ch) ==
    CHOOSE i \in DOMAIN chars :
        chars[i] = ch /\ \A j \in DOMAIN chars : j > i => chars[j] # ch

\* key.rsplit('_', 2) of a key with at least two underscores
RSplit2(chars) ==
    LET j2 == LastIndexOf(chars, "_")
        head == SubSeq(chars, 1, j2 - 1)
        j1 == LastIndexOf(head, "_")
    IN  <<SubSeq(head, 1, j1 - 1), SubSeq(head, j1 + 1, Len(head)),
          SubSeq(chars, j2 + 1, Len(chars))>>

\* f"{camera}_{hour}_{day_of_week}"
GroupKey(camera, hour, day_of_week) ==
    NameChars[camera] \o <<"_">> \o FormatInt(hour) \o <<"_">> \o FormatInt(day_of_week)

\* f"{person_id}_{camera}_{hour}_{dow}", of parts that are characters already
PatternKeyChars(person_id, camera, hour, dow) ==
    NameChars[person_id] \o <<"_">> \o camera \o <<"_">> \o hour \o <<"_">> \o dow

\* person_id or "unknown"
OrUnknown(person_id) == IF person_id = None THEN "unknown" ELSE person_id

\* f"{person_id}_{event.camera}_{event.timestamp.hour}_{event.timestamp.weekday()}"
EventKey(event) ==
    Text(PatternKeyChars(OrUnknown(event.person_id), NameChars[event.camera],
                         FormatInt(Hour(event.timestamp)),
                         FormatInt(Weekday(event.timestamp))))

\* MovementEvent(timestamp, camera, person_id, position); the confidence is
\* stored and never read, and is left out
MovementEvent(timestamp, camera, person_id, position) ==
    [timestamp |-> timestamp, camera |-> camera, person_id |-> person_id,
     position |-> position]

\* ((bbox[0] + bbox[2]) / 2, (bbox[1] + bbox[3]) / 2), doubled
Centre(bbox) == <<bbox[1] + bbox[3], bbox[2] + bbox[4]>>

\* the event that record_movement creates; NoTime stands for timestamp = None
NewEvent(camera, bbox, person_id, timestamp) ==
    MovementEvent(IF timestamp = NoTime THEN now ELSE timestamp,
                  camera, person_id, Centre(bbox))

EventsAfterRecord_twice(evs, event) == Append(Append(evs, event), event)
\* line 162: self.events.append(event)
EventsAfterRecord(evs, event) == Append(evs, event)

record_movement(camera, bbox, person_id, timestamp) ==
    \E event \in {NewEvent(camera, bbox, person_id, timestamp)} :
        /\ events' = EventsAfterRecord(events, event)
        /\ events_file' = Append(events_file, event)
        /\ acall' = [op |-> "record_movement", event |-> event,
                     pre_events |-> events, pre_events_file |-> events_file,
                     pre_patterns |-> patterns,
                     pre_patterns_file |-> patterns_file]
        /\ UNCHANGED <<patterns, patterns_file, min_baseline_days, building>>
        /\ UNCHANGED <<clockVars, dedupVars, smartVars, monitorVars>>

\* has_sufficient_baseline, on the event list evs
HasSufficientBaseline(evs) ==
    IF evs = <<>>
    THEN FALSE
    ELSE Days(evs[Len(evs)].timestamp - evs[1].timestamp) >= min_baseline_days

has_sufficient_baseline ==
    /\ acall' = [op |-> "has_sufficient_baseline",
                 ret |-> HasSufficientBaseline(events)]
    /\ UNCHANGED <<events, events_file, patterns, patterns_file,
                   min_baseline_days, building>>
    /\ UNCHANGED <<clockVars, dedupVars, smartVars, monitorVars>>

\* rational numbers, for the quotients that the code computes in floating point
Rat(num, den) == [num |-> num, den |-> den]
RatLe(a, b) == a.num * b.den <= b.num * a.den
RatEq(a, b) == a.num * b.den = b.num * a.den

RECURSIVE SumSeq(_)
SumSeq(seq) == IF seq = <<>> THEN 0 ELSE Head(seq) + SumSeq(Tail(seq))

\* sorted(seq): the element of rank k is the one with k - 1 elements before
\* it, equal elements keeping their order
Sorted(seq) ==
    LET Before(j, i) == seq[j] < seq[i] \/ (seq[j] = seq[i] /\ j < i)
        rank == [i \in DOMAIN seq |->
                    Cardinality({j \in DOMAIN seq : Before(j, i)}) + 1]
    IN  [k \in DOMAIN seq |-> seq[CHOOSE i \in DOMAIN seq : rank[i] = k]]

\* lines 223-230: the mean, in minutes, of the gaps under 30 minutes between
\* consecutive sorted timestamps, or 0
AvgDuration(timestamps) ==
    LET sorted == Sorted(timestamps)
        gaps == [i \in 1..(Len(sorted) - 1) |-> sorted[i + 1] - sorted[i]]
        durations == SelectSeq(gaps, LAMBDA gap : gap < ConsecutiveMinutes * 60)
    IN  IF durations = <<>>
        THEN Rat(0, 1)
        ELSE Rat(SumSeq(durations), 60 * Len(durations))

FrequencyScore_unclamped(occurrences, total_days) ==
    Rat(occurrences, total_days * OccurrencesPerDayCap)
\* lines 234-235: min(len(occurrences) / total_days / 10, 1.0)
FrequencyScore(occurrences, total_days) ==
    LET frequency == Rat(occurrences, total_days)
        tenth == Rat(frequency.num, frequency.den * OccurrencesPerDayCap)
    IN  IF RatLe(tenth, Rat(1, 1)) THEN tenth ELSE Rat(1, 1)

\* line 233: (df['timestamp'].max() - df['timestamp'].min()).days or 1
TotalDays(rows) ==
    LET stamps == {rows[i].timestamp : i \in DOMAIN rows}
        max == CHOOSE t \in stamps : \A u \in stamps : u <= t
        min == CHOOSE t \in stamps : \A u \in stamps : t <= u
    IN  IF Days(max - min) = 0 THEN 1 ELSE Days(max - min)

\* line 183: the events of the window; days = 0 stands for days = None as
\* well, which `if days' treats alike
WindowOf(evs, days) ==
    IF days = 0
    THEN evs
    ELSE SelectSeq(evs, LAMBDA e : e.timestamp >= now - days * SecondsPerDay)

\* lines 190-201: the row of the DataFrame made of event e
Row(e) ==
    [timestamp |-> e.timestamp, camera |-> e.camera,
     person_id |-> OrUnknown(e.person_id),
     key |-> GroupKey(e.camera, Hour(e.timestamp), Weekday(e.timestamp)),
     position |-> e.position]

\* the elements of seq in the order of their first appearance
Distinct(seq) ==
    LET firsts == SelectSeq([i \in DOMAIN seq |-> i],
                            LAMBDA i : \A j \in 1..(i - 1) : seq[j] # seq[i])
    IN  [k \in DOMAIN firsts |-> seq[firsts[k]]]

\* lines 206-211: the (key, person_id) groups in the order in which the loops
\* of lines 215 and 218 visit them
RECURSIVE GroupsOf(_, _)
GroupsOf(rows, keys) ==
    IF keys = <<>>
    THEN <<>>
    ELSE LET of_key == SelectSeq(rows, LAMBDA r : r.key = Head(keys))
             persons == Distinct([i \in DOMAIN of_key |-> of_key[i].person_id])
         IN  [i \in DOMAIN persons |-> [key |-> Head(keys), person_id |-> persons[i]]]
                \o GroupsOf(rows, Tail(keys))

\* lines 216-246: the entry that a group with at least two occurrences adds
PatternEntry(rows, group) ==
    LET occurrences == SelectSeq(rows, LAMBDA r : r.key = group.key
                                                  /\ r.person_id = group.person_id)
        parts == RSplit2(group.key)
    IN  [key |-> Text(PatternKeyChars(group.person_id, parts[1], parts[2], parts[3])),
         count |-> Len(occurrences),
         pattern |->
           [person_id |-> IF group.person_id # "unknown" THEN group.person_id ELSE None,
            camera |-> Text(parts[1]),
            hour_of_day |-> ParseInt(parts[2]),
            day_of_week |-> ParseInt(parts[3]),
            avg_duration_minutes |->
               AvgDuration([i \in DOMAIN occurrences |-> occurrences[i].timestamp]),
            frequency_score |-> FrequencyScore(Len(occurrences), TotalDays(rows)),
            typical_positions |->
               [i \in 1..(IF Len(occurrences) < TypicalPositionsLimit
                          THEN Len(occurrences) ELSE TypicalPositionsLimit)
                   |-> occurrences[i].position]]]

\* the entries that build_baseline writes into self.patterns for the events
\* evs, in the order in which it writes them
PatternEntries(evs) ==
    LET rows == [i \in DOMAIN evs |-> Row(evs[i])]
        groups == GroupsOf(rows, Distinct([i \in DOMAIN rows |-> rows[i].key]))
        entries == [i \in DOMAIN groups |-> PatternEntry(rows, groups[i])]
    IN  SelectSeq(entries, LAMBDA entry : ~(entry.count < MinOccurrences))

\* self.patterns after line 214 and the first k assignments of line 238
PatternsAfter(entries, k) ==
    [key \in {entries[i].key : i \in 1..k} |->
        entries[CHOOSE i \in 1..k :
                   /\ entries[i].key = key
                   /\ \A j \in 1..k : entries[j].key = key => j <= i].pattern]

NoPatterns == [key \in {} |-> None]

\* build_baseline run from its first line to its last
build_baseline(days) ==
    \E window \in {WindowOf(events, days)} :
    \E entries \in {IF window = <<>> THEN <<>> ELSE PatternEntries(window)} :
    \E built \in {PatternsAfter(entries, Len(entries))} :
        /\ patterns' = IF window = <<>> THEN patterns ELSE built
        /\ patterns_file' = IF window = <<>> THEN patterns_file ELSE built
        /\ acall' = [op |-> "build_baseline", days |-> days,
                     ret |-> IF window = <<>> THEN "empty" ELSE "summary",
                     window |-> window, pre_patterns |-> patterns]
        /\ UNCHANGED <<events, events_file, min_baseline_days, building>>
        /\ UNCHANGED <<clockVars, dedupVars, smartVars, monitorVars>>

\* detect_anomaly returns None
NoAnomaly == [type |-> None]

\* the square of the distance between two positions, in two-hundredths
DistanceSq(p, q) ==
    (p[1] - q[1]) * (p[1] - q[1]) + (p[2] - q[2]) * (p[2] - q[2])

MinDistanceSq_max(typical_positions, event_pos) ==
    LET distances == {DistanceSq(typical_positions[i], event_pos) :
                         i \in DOMAIN typical_positions}
    IN  CHOOSE d \in distances : \A e \in distances : e <= d
\* lines 312-313: np.min(np.linalg.norm(typical_positions - event_pos, axis=1)),
\* squared
MinDistanceSq(typical_positions, event_pos) ==
    LET distances == {DistanceSq(typical_positions[i], event_pos) :
                         i \in DOMAIN typical_positions}
    IN  CHOOSE d \in distances : \A e \in distances : d <= e

\* line 316: min_distance > 0.3
FarFromTypical(distance_sq) == distance_sq > PositionThreshold * PositionThreshold

NoBaseline_never(pats) == FALSE
\* line 275: not self.patterns
NoBaseline(pats) == DOMAIN pats = {}

\* detect_anomaly(event), on the pattern map pats
DetectAnomaly(pats, event) ==
    IF NoBaseline(pats)
    THEN NoAnomaly
    ELSE IF EventKey(event) \notin DOMAIN pats
    THEN LET person_patterns ==
                 {key \in DOMAIN pats : pats[key].person_id = event.person_id}
         IN  IF person_patterns = {}
             THEN [type |-> "unknown_person", severity |-> "low", event |-> event]
             ELSE [type |-> "unusual_time_location", severity |-> "medium",
                   event |-> event,
                   typical_locations |->
                      {pats[key].camera : key \in person_patterns}]
    ELSE LET pattern == pats[EventKey(event)] IN
         IF /\ Len(pattern.typical_positions) > 0
            /\ FarFromTypical(MinDistanceSq(pattern.typical_positions, event.position))
         THEN [type |-> "unusual_position", severity |-> "low", event |-> event,
               distance_sq |->
                  MinDistanceSq(pattern.typical_positions, event.position)]
         ELSE NoAnomaly

\* no build_baseline is in progress
NoBuild == [pc |-> "idle"]

\* the complete pattern map before the build in progress or interrupted, and
\* the complete map that this build was to produce
PreviousMap == IF building.pc = "idle" THEN patterns ELSE building.previous
TargetMap ==
    IF building.pc = "idle"
    THEN patterns
    ELSE PatternsAfter(building.entries, Len(building.entries))

detect_anomaly(event) ==
    /\ acall' = [op |-> "detect_anomaly", event |-> event, seen |-> patterns,
                 ret |-> DetectAnomaly(patterns, event),
                 sufficient |-> HasSufficientBaseline(events),
                 previous |-> PreviousMap, target |-> TargetMap,
                 pc |-> building.pc,
                 pre |-> <<events, events_file, patterns, patterns_file>>]
    /\ UNCHANGED <<events, events_file, patterns, patterns_file,
                   min_baseline_days, building>>
    /\ UNCHANGED <<clockVars, dedupVars, smartVars, monitorVars>>

(***************************************************************************)
(* build_baseline statement by statement, as another thread or an          *)
(* exception meets it: lines 177-214, then each assignment of line 238,    *)
(* then line 248.                                                          *)
(***************************************************************************)
build_begin(days) ==
    \E window \in {WindowOf(events, days)} :
        /\ building.pc # "loop"
        /\ patterns' = IF window = <<>> THEN patterns ELSE NoPatterns
        /\ building' = IF window = <<>>
                       THEN building
                       ELSE [pc |-> "loop", entries |-> PatternEntries(window),
                             done |-> 0, previous |-> patterns]
        /\ acall' = IF window = <<>>
                    THEN [op |-> "build_baseline", days |-> days, ret |-> "empty",
                          window |-> window, pre_patterns |-> patterns]
                    ELSE NoCall
        /\ UNCHANGED <<events, events_file, patterns_file, min_baseline_days>>
        /\ UNCHANGED <<clockVars, dedupVars, smartVars, monitorVars>>

build_step ==
    /\ building.pc = "loop"
    /\ building.done < Len(building.entries)
    /\ patterns' = Put(patterns, building.entries[building.done + 1].key,
                       building.entries[building.done + 1].pattern)
    /\ building' = [building EXCEPT !.done = @ + 1]
    /\ acall' = NoCall
    /\ UNCHANGED <<events, events_file, patterns_file, min_baseline_days>>
    /\ UNCHANGED <<clockVars, dedupVars, smartVars, monitorVars>>

build_save ==
    /\ building.pc = "loop"
    /\ building.done = Len(building.entries)
    /\ patterns_file' = patterns
    /\ building' = NoBuild
    /\ acall' = [op |-> "build_baseline", ret |-> "summary",
                 pre_patterns |-> building.previous]
    /\ UNCHANGED <<events, events_file, patterns, min_baseline_days>>
    /\ UNCHANGED <<clockVars, dedupVars, smartVars, monitorVars>>

\* an exception (KeyboardInterrupt, MemoryError) leaves build_baseline
\* between two of its statements
build_interrupt ==
    /\ building.pc = "loop"
    /\ building' = [building EXCEPT !.pc = "interrupted"]
    /\ acall' = [op |-> "build_baseline", ret |-> "raised",
                 pre_patterns |-> building.previous]
    /\ UNCHANGED <<events, events_file, patterns, patterns_file, min_baseline_days>>
    /\ UNCHANGED <<clockVars, dedupVars, smartVars, monitorVars>>

(***************************************************************************)
(* VigilHome.process_frame, step 3 (main.py lines 150-169): the only step  *)
(* that reads or writes the analyzer.                                      *)
(***************************************************************************)
\* lines 153-167: the loop over the detections, on the analyzer state st
RECURSIVE RecordDetections(_, _, _, _)
RecordDetections(st, camera, detections, timestamp) ==
    IF detections = <<>>
    THEN st
    ELSE LET det == Head(detections) IN
         IF (IF "class" \in DOMAIN det THEN det.class # "person" ELSE TRUE)
         THEN RecordDetections(st, camera, Tail(detections), timestamp)
         ELSE IF (IF {"bbox", "confidence"} \subseteq DOMAIN det
                  THEN Len(det.bbox) < 4 ELSE TRUE)
         THEN st
         ELSE LET event == NewEvent(camera, det.bbox, None, timestamp)
                  recorded == EventsAfterRecord(st.events, event)
                  anomaly == DetectAnomaly(patterns, event)
              IN  RecordDetections(
                     [events |-> recorded,
                      events_file |-> Append(st.events_file, event),
                      calls |-> Append(st.calls,
                                   [event |-> event, ret |-> anomaly,
                                    sufficient |-> HasSufficientBaseline(recorded)]),
                      anomaly |-> IF anomaly # NoAnomaly THEN anomaly ELSE st.anomaly],
                     camera, Tail(detections), timestamp)

process_frame(camera, detections, timestamp) ==
    \E st \in {RecordDetections([events |-> events, events_file |-> events_file,
                                 calls |-> <<>>, anomaly |-> NoAnomaly],
                                camera, detections,
                                IF timestamp = NoTime THEN now ELSE timestamp)} :
        /\ events' = st.events
        /\ events_file' = st.events_file
        /\ acall' = [op |-> "process_frame", detections |-> detections,
                     calls |-> st.calls, anomaly |-> st.anomaly]
        /\ UNCHANGED <<patterns, patterns_file, min_baseline_days, building>>
        /\ UNCHANGED <<clockVars, dedupVars, smartVars, monitorVars>>

AnalyzerInit ==
    /\ events = <<>>
    /\ events_file = <<>>
    /\ patterns = NoPatterns
    /\ patterns_file = NoPatterns
    /\ acall = NoCall
    /\ building = NoBuild

(***************************************************************************)
(* RealtimeMonitor                                                         *)
(***************************************************************************)
\* RealtimeMonitor.__init__(rate_limit_seconds = 30)
RateLimitSeconds == 30
\* RealtimeMonitor.__init__(status_interval_minutes = 5)
StatusIntervalMinutes == 5
\* timedelta(minutes = status_interval_minutes), in seconds
StatusInterval == StatusIntervalMinutes * 60

\* the cameras write at most this many images in a run
MaxImages == 2
ImageNames == <<"1.jpg", "2.jpg", "3.jpg", "4.jpg", "5.jpg", "6.jpg">>

\* str(img_path) of the n-th image of a camera directory
PathOf(camera, n) == camera \o "/" \o ImageNames[n]

\* what the detector returns for an image: no person, one person above the
\* confidence threshold, or a batch with an entry that lacks a field
DetectionOutcomes == {"none", "person", "malformed"}
\* and the answers under which a later step fails: a batch whose first person
\* has a bounding box of three numbers, and a person whose event cannot be
\* written to the log file
FaultyOutcomes == DetectionOutcomes \cup {"badbox", "unwritable"}

\* RealtimeMonitor.__init__(conf_threshold = 0.5), in hundredths
ConfThreshold == 50
\* box.xyxy of the person detected, in pixels: [100, 100, 200, 300]
PersonBBox == <<10000, 10000, 20000, 30000>>
\* box.xyxy of a second person: [300, 100, 400, 300]
SecondBBox == <<30000, 10000, 40000, 30000>>

\* the entries of detector.detect: dicts with the keys class, confidence, bbox
PersonEntry == [class |-> "person", confidence |-> 90, bbox |-> PersonBBox]
SecondEntry == [class |-> "person", confidence |-> 80, bbox |-> SecondBBox]
CupEntry == [class |-> "cup", confidence |-> 70, bbox |-> PersonBBox]
\* a person entry without the key 'confidence'
NoConfidenceEntry == [class |-> "person", bbox |-> PersonBBox]
\* a person entry whose bbox has three numbers
ShortBBoxEntry ==
    [class |-> "person", confidence |-> 90, bbox |-> <<10000, 10000, 20000>>]

\* the detector's answer and whether behavioral_events.jsonl can be written
DetectorAnswer(outcome) ==
    CASE outcome = "none" -> [detections |-> <<CupEntry>>, writable |-> TRUE]
      [] outcome = "person" -> [detections |-> <<PersonEntry>>, writable |-> TRUE]
      [] outcome = "malformed" ->
           [detections |-> <<NoConfidenceEntry, SecondEntry>>, writable |-> TRUE]
      [] outcome = "badbox" ->
           [detections |-> <<ShortBBoxEntry, SecondEntry>>, writable |-> TRUE]
      [] outcome = "unwritable" ->
           [detections |-> <<PersonEntry>>, writable |-> FALSE]

\* a camera writes its next image
\* a *.jpg file is written into the directory of a camera
image_written(camera) ==
    /\ files' = [files EXCEPT ![camera] = Append(@, PathOf(camera, Len(@) + 1))]
    /\ UNCHANGED <<processed_images, last_alert_time, stats, last_status_time,
                   pending_alerts, handed, monitor_pc>>
    /\ UNCHANGED <<clockVars, dedupVars, smartVars, analyzerVars, textVars>>

new_image(camera) ==
    /\ Len(files["sala"]) + Len(files["cozinha"]) < MaxImages
    /\ image_written(camera)

\* get_camera_dirs: the camera directories that exist
get_camera_dirs == {c \in Cameras : files[c] # <<>>}

Reverse(seq) == [i \in DOMAIN seq |-> seq[Len(seq) + 1 - i]]
\* get_new_images: the unprocessed images of a directory, newest first
get_new_images(camera) ==
    Reverse(SelectSeq(files[camera], LAMBDA path : path \notin processed_images))

\* check_rate_limit, on the monitor state m
check_rate_limit_shared(m, camera) ==
    \A c \in DOMAIN m.last_alert_time :
       now - m.last_alert_time[c] >= RateLimitSeconds
\* check_rate_limit, on the monitor state m
check_rate_limit(m, camera) ==
    IF camera \notin DOMAIN m.last_alert_time
    THEN TRUE
    ELSE now - m.last_alert_time[camera] >= RateLimitSeconds

\* send_telegram_alert, on the monitor state m
send_telegram_alert(m, camera, path) ==
    [m EXCEPT
       !.pending_alerts = Append(@, [kind |-> "person", camera |-> camera,
                                      media |-> path]),
       !.last_alert_time = Put(@, camera, now),
       !.stats.alerts_sent = @ + 1]

\* lines 166-167: d["class"] == "person" and d["confidence"] > threshold
\* raises KeyError on an entry without 'class' and on a person without
\* 'confidence'
FilterRaises(detections) ==
    \E i \in DOMAIN detections :
       IF "class" \notin DOMAIN detections[i]
       THEN TRUE
       ELSE IF detections[i].class = "person"
            THEN "confidence" \notin DOMAIN detections[i]
            ELSE FALSE

PersonsOf(detections) ==
    SelectSeq(detections,
              LAMBDA d : IF d.class = "person"
                         THEN d.confidence > ConfThreshold ELSE FALSE)

AfterFailedWrite_lost(m, appended) == m
\* lines 162-163: the event is appended to self.events before _save_event
\* raises, so it stays in memory
AfterFailedWrite(m, appended) == appended

\* lines 187-200: the loop over the persons, left at the first exception:
\* bbox[3] of a short bbox (line 152) raises before the event is made, a
\* failed write (line 163) after the event was appended to self.events
RECURSIVE RecordPersons(_, _, _, _)
RecordPersons(m, camera, persons, writable) ==
    IF persons = <<>>
    THEN m
    ELSE IF Len(Head(persons).bbox) < 4
    THEN m
    ELSE LET event == NewEvent(camera, Head(persons).bbox, None, now)
             appended == [m EXCEPT !.events = EventsAfterRecord(@, event)]
         IN  IF ~writable
             THEN AfterFailedWrite(m, appended)
             ELSE RecordPersons(
                     [appended EXCEPT
                        !.events_file = Append(@, event),
                        !.calls = Append(@,
                           [event |-> event,
                            ret |-> DetectAnomaly(patterns, event),
                            sufficient |-> HasSufficientBaseline(appended.events)])],
                     camera, Tail(persons), writable)

\* process_image, on the monitor state m, for the detector's answer
process_image(m, camera, path, answer) ==
    IF FilterRaises(answer.detections)
    THEN [m EXCEPT !.stats.errors = @ + 1]
    ELSE LET persons == PersonsOf(answer.detections) IN
         IF persons = <<>>
         THEN m
         ELSE LET after == RecordPersons(m, camera, persons, answer.writable)
                  recorded ==
                     [after EXCEPT
                        !.decided = @ \cup {path},
                        !.logged = Put(@, path,
                           [events |-> SubSeq(after.events, Len(m.events) + 1,
                                              Len(after.events)),
                            written |-> SubSeq(after.events_file,
                                               Len(m.events_file) + 1,
                                               Len(after.events_file))])]
                  alerted == IF check_rate_limit(recorded, camera)
                             THEN send_telegram_alert(recorded, camera, path)
                             ELSE recorded
              IN  [alerted EXCEPT !.stats.persons_detected = @ + Len(persons)]

ProcessedAfter_unmarked(processed, path) == processed
\* line 263: self.processed_images.add(str(img_path))
ProcessedAfter(processed, path) == processed \cup {path}

\* lines 261-267: the loop over the new images of one camera directory
RECURSIVE ProcessImages(_, _, _, _)
ProcessImages(m, camera, new_images, outcome) ==
    IF new_images = <<>>
    THEN m
    ELSE LET path == Head(new_images)
             marked == [m EXCEPT !.processed_images = ProcessedAfter(@, path),
                                 !.stats.images_processed = @ + 1]
             passed == [marked EXCEPT
                          !.handed[path] = @ + 1,
                          !.passed = Append(@, [camera |-> camera, path |-> path])]
         IN  ProcessImages(process_image(passed, camera, path,
                                         DetectorAnswer(outcome[path])),
                           camera, Tail(new_images), outcome)

\* lines 257-267: the loop over the camera directories, in the order `dirs';
\* listing the directory `broken' raises (glob or stat fails), which ends
\* run_cycle with the exception
RECURSIVE ProcessDirs(_, _, _, _)
ProcessDirs(m, dirs, outcome, broken) ==
    IF dirs = <<>>
    THEN m
    ELSE IF Head(dirs) = broken
    THEN [m EXCEPT !.raised = TRUE]
    ELSE ProcessDirs(ProcessImages(m, Head(dirs), get_new_images(Head(dirs)), outcome),
                     Tail(dirs), outcome, broken)

StatusDue(m) == now - m.last_status_time >= StatusInterval

\* check_status_report and send_status_report, on the monitor state m
check_status_report(m) ==
    IF StatusDue(m)
    THEN [m EXCEPT !.pending_alerts = Append(@, [kind |-> "status"]),
                   !.last_status_time = now]
    ELSE m

\* the orders in which iterdir() can list a set of directories
Orders(dirs) ==
    {order \in [1..Cardinality(dirs) -> dirs] :
        \A i, j \in DOMAIN order : i # j => order[i] # order[j]}

AllPaths == {PathOf(c, n) : c \in Cameras, n \in DOMAIN ImageNames}

PendingAtStart_kept == pending_alerts
\* line 250: self.pending_alerts = []
PendingAtStart == <<>>

MonitorState ==
    [processed_images |-> processed_images, last_alert_time |-> last_alert_time,
     stats |-> stats, last_status_time |-> last_status_time,
     pending_alerts |-> PendingAtStart, handed |-> handed,
     events |-> events, events_file |-> events_file, calls |-> <<>>,
     passed |-> <<>>, decided |-> {}, logged |-> [path \in {} |-> None],
     raised |-> FALSE]

\* what `openclaw message send' does with an alert: exit status 0, another
\* exit status, or no answer within 30 seconds
DispatchResults == {"sent", "failed", "timeout"}

\* lines 284-302: one attempt for every alert of the list that run_cycle
\* returned; whatever the result, it is logged and the loop goes on
Dispatch(alerts, result) ==
    [i \in DOMAIN alerts |-> [alert |-> alerts[i], result |-> result]]

\* one iteration of run_forever: run_cycle, then the dispatch of its alerts.
\* The detector answers with one of `outcomes' for each new image, the
\* directory `broken' (if any) cannot be listed, and the dispatches of the
\* iteration end in one of `results'.
Iteration(outcomes, brokens, results) ==
    /\ monitor_pc = "running"
    /\ \E order \in Orders(get_camera_dirs) :
       \E broken \in brokens :
       \E result \in results :
       \E outcome \in [{path \in AllPaths : \E c \in Cameras :
                           path \in {files[c][i] : i \in DOMAIN files[c]}
                           /\ path \notin processed_images} -> outcomes] :
       \E m \in {IF get_camera_dirs = {}
                 THEN MonitorState
                 ELSE ProcessDirs(MonitorState, order, outcome, broken)} :
       \E done \in {IF get_camera_dirs = {} \/ m.raised
                    THEN m
                    ELSE check_status_report(m)} :
       \E alerts \in {IF m.raised THEN <<>> ELSE done.pending_alerts} :
           /\ processed_images' = done.processed_images
           /\ last_alert_time' = done.last_alert_time
           /\ stats' = done.stats
           /\ last_status_time' = done.last_status_time
           /\ pending_alerts' = done.pending_alerts
           /\ handed' = done.handed
           /\ events' = done.events
           /\ events_file' = done.events_file
           /\ monitor_pc' = IF m.raised THEN "crashed" ELSE "running"
           /\ acall' = [op |-> "run_cycle", calls |-> done.calls,
                        new |-> IF get_camera_dirs = {} THEN {} ELSE DOMAIN outcome,
                        answers |-> outcome,
                        dirs |-> get_camera_dirs,
                        passed |-> done.passed,
                        decided |-> done.decided,
                        logged |-> done.logged,
                        status_due |-> StatusDue(MonitorState),
                        raised |-> m.raised,
                        queued |-> done.pending_alerts,
                        attempts |-> Dispatch(alerts, result)]
           /\ UNCHANGED files
           /\ UNCHANGED <<patterns, patterns_file, min_baseline_days, building>>
           /\ UNCHANGED <<clockVars, dedupVars, smartVars, textVars>>

\* an iteration in which every directory can be listed, every event can be
\* written and every alert is sent
run_cycle == Iteration(DetectionOutcomes, {None}, {"sent"})

\* an iteration in which any of these steps can fail
run_cycle_faulty == Iteration(FaultyOutcomes, {None} \cup Cameras, DispatchResults)

(***************************************************************************)
(* TextOnlyMonitor                                                         *)
(***************************************************************************)
\* line 69: if time_since_alert > 60
MinSecondsBetweenTextAlerts == 60

\* what a pass finds in the latest image: people, no people, or an exception
\* (a detection without 'class', a file that cannot be read)
TextOutcomes == {"people", "empty", "raises"}

\* dict.get(key, default)
Get(dict, key, default) == IF key \in DOMAIN dict THEN dict[key] ELSE default

WasPresent_any(present, camera) == \E key \in DOMAIN present : present[key]
\* line 65: self.person_present.get(camera_name, False)
WasPresent(present, camera) == Get(present, camera, FALSE)

\* lines 63-64 and 69: last_alert defaults to datetime.min
TimeSinceAlertAllows(alert_time, camera, current_time) ==
    IF camera \in DOMAIN alert_time
    THEN current_time - alert_time[camera] > MinSecondsBetweenTextAlerts
    ELSE TRUE

\* lines 67-83: what the pass does with the presence found
TextBranch(present, alert_time, camera, has_people, current_time) ==
    IF has_people /\ ~WasPresent(present, camera)
    THEN IF TimeSinceAlertAllows(alert_time, camera, current_time)
         THEN "arrived"
         ELSE "quiet"
    ELSE IF ~has_people /\ WasPresent(present, camera)
    THEN "left"
    ELSE "none"

PresentAfterArrival_kept(present, camera) == present
\* line 75: self.person_present[camera_name] = True
PresentAfterArrival(present, camera) == Put(present, camera, TRUE)

\* lines 68-83: the writes of a branch, on the record st of the two maps and
\* of the messages of the camera
ApplyBranch(st, camera, branch, current_time) ==
    CASE branch = "arrived" ->
           [st EXCEPT
              !.sent = Append(@, [kind |-> "arrived", at |-> current_time]),
              !.last_alert_time = Put(@, camera, current_time),
              !.person_present = PresentAfterArrival(@, camera)]
      [] branch = "quiet" ->
           [st EXCEPT !.person_present = Put(@, camera, TRUE)]
      [] branch = "left" ->
           [st EXCEPT
              !.sent = Append(@, [kind |-> "left", at |-> current_time]),
              !.person_present = Put(@, camera, FALSE),
              !.last_alert_time = Put(@, camera, current_time)]
      [] OTHER -> st

LoopContinues_always == TRUE
\* line 44: while self.running
LoopContinues == running

\* monitor_camera from the test of its loop to its next await: the end of the
\* coroutine, the sleep of lines 85 and 89, or the send of lines 72 and 80
monitor_camera(camera, outcome) ==
    /\ workers[camera].pc = "idle"
    /\ IF ~LoopContinues
       THEN /\ workers' = [workers EXCEPT ![camera].pc = "done"]
            /\ UNCHANGED <<person_present, alone>>
       ELSE IF (IF files[camera] = <<>>
                THEN TRUE
                ELSE files[camera][Len(files[camera])] = workers[camera].last_processed)
       THEN UNCHANGED <<workers, person_present, alone>>
       ELSE IF outcome = "raises"
       THEN /\ workers' = [workers EXCEPT
                             ![camera].last_processed = files[camera][Len(files[camera])],
                             ![camera].detected = @ + 1]
            /\ UNCHANGED <<person_present, alone>>
       ELSE \E branch \in {TextBranch(person_present, text_last_alert_time,
                                      camera, outcome = "people", now)} :
            /\ workers' = [workers EXCEPT
                             ![camera].last_processed = files[camera][Len(files[camera])],
                             ![camera].detected = @ + 1,
                             ![camera].pc = IF branch \in {"arrived", "left"}
                                            THEN "sending" ELSE "idle",
                             ![camera].branch = branch,
                             ![camera].current_time = now]
            /\ person_present' = IF branch = "quiet"
                                 THEN Put(person_present, camera, TRUE)
                                 ELSE person_present
            /\ alone' = [alone EXCEPT ![camera] =
                           ApplyBranch(@, camera,
                                       TextBranch(@.person_present, @.last_alert_time,
                                                  camera, outcome = "people", now),
                                       now)]
    /\ UNCHANGED <<running, text_last_alert_time, text_sent>>
    /\ UNCHANGED <<clockVars, dedupVars, smartVars, realtimeVars, analyzerVars>>

\* monitor_camera from the return of _send_telegram to the sleep of line 85
monitor_camera_resume(camera) ==
    /\ workers[camera].pc = "sending"
    /\ \E st \in {ApplyBranch([person_present |-> person_present,
                               last_alert_time |-> text_last_alert_time,
                               sent |-> text_sent[camera]],
                              camera, workers[camera].branch,
                              workers[camera].current_time)} :
          /\ person_present' = st.person_present
          /\ text_last_alert_time' = st.last_alert_time
          /\ text_sent' = [text_sent EXCEPT ![camera] = st.sent]
    /\ workers' = [workers EXCEPT ![camera].pc = "idle"]
    /\ UNCHANGED <<running, alone>>
    /\ UNCHANGED <<clockVars, dedupVars, smartVars, realtimeVars, analyzerVars>>

\* TextOnlyMonitor.stop
stop ==
    /\ running
    /\ running' = FALSE
    /\ UNCHANGED <<person_present, text_last_alert_time, workers, text_sent, alone>>
    /\ UNCHANGED <<clockVars, dedupVars, smartVars, realtimeVars, analyzerVars>>

\* TextOnlyMonitor.__init__, and run() with a task for each of its cameras
TextInit ==
    /\ running = TRUE
    /\ person_present = [c \in {} |-> FALSE]
    /\ text_last_alert_time = [c \in {} |-> NoTime]
    /\ workers = [c \in Cameras |->
                    [pc |-> "idle", last_processed |-> None, branch |-> "none",
                     current_time |-> NoTime, detected |-> 0]]
    /\ text_sent = [c \in Cameras |-> <<>>]
    /\ alone = [c \in Cameras |->
                  [person_present |-> [k \in {} |-> FALSE],
                   last_alert_time |-> [k \in {} |-> NoTime],
                   sent |-> <<>>]]

MonitorInit ==
    /\ files = [c \in Cameras |-> <<>>]
    /\ processed_images = {}
    /\ last_alert_time = [c \in {} |-> NoTime]
    /\ stats = [images_processed |-> 0, persons_detected |-> 0,
                alerts_sent |-> 0, errors |-> 0]
    /\ last_status_time = started
    /\ pending_alerts = <<>>
    /\ handed = [path \in AllPaths |-> 0]
    /\ monitor_pc = "running"
    /\ TextInit

DedupInit ==
    /\ active_detections = [c \in {} |-> None]
    /\ dcall = NoCall
    /\ last_reminder = [c \in Cameras |-> NoTime]
    /\ observed = [c \in Cameras |-> FALSE]
    /\ true_returns = [c \in Cameras |-> [last |-> NoTime, count |-> 0]]

\* AlertDeduplicator driven by arbitrary callers, from midnight
Init ==
    /\ started = 0
    /\ now = started
    /\ DedupInit
    /\ config = DefaultConfig
    /\ SmartInit
    /\ MonitorInit
    /\ AnalyzerInit
    /\ min_baseline_days = MinBaselineDays

Next ==
    \/ \E d \in DedupSteps : Tick(d)
    \/ \E c \in Cameras, p \in Persons, o \in ObjectLists : should_alert(c, p, o)
    \/ \E c \in Cameras : mark_left(c)
    \/ cleanup_old(MaxAgeSeconds)

Spec == Init /\ [][Next]_vars

\* SmartAlertManager driven by arbitrary callers, with quiet hours 23:00-07:00
InitSmart ==
    /\ started = SmartStart
    /\ now = started
    /\ config = [quiet_hours |-> QuietNight]
    /\ DedupInit
    /\ SmartInit
    /\ MonitorInit
    /\ AnalyzerInit
    /\ min_baseline_days = MinBaselineDays

NextSmart ==
    \/ \E d \in SmartSteps : Tick(d)
    \/ \E c \in SmartCameras, p \in SmartPersons, desc \in Descriptions :
          process_detection(c, p, desc)
    \/ cleanup_old_tracking
    \/ send_daily_digest

SpecSmart == InitSmart /\ [][NextSmart]_vars

\* _is_quiet_hours as a function of the configuration and the time of day
check_quiet_hours ==
    /\ scall' = [op |-> "_is_quiet_hours", ret |-> _is_quiet_hours]
    /\ UNCHANGED <<config, last_alerts, active_persons, daily_images,
                   last_arrival, last_unknown,
                   last_detected>>
    /\ UNCHANGED <<clockVars, dedupVars, monitorVars, analyzerVars>>

QuietDay == [enabled |-> TRUE,
             start |-> <<"0", "9", ":", "3", "0">>,
             end |-> <<"1", "7", ":", "4", "5">>]
QuietConfigs == {QuietNight, QuietOff, QuietDay}
\* 23:25, 06:54, 11:55, 09:25 and 17:40
QuietStarts ==
    {23 * 3600 + 25 * 60, 6 * 3600 + 54 * 60, 11 * 3600 + 55 * 60,
     9 * 3600 + 25 * 60, 17 * 3600 + 40 * 60}
QuietSteps == {MinTimeBetweenAlerts, 30}

InitQuiet ==
    /\ started \in QuietStarts
    /\ now = started
    /\ config \in {[quiet_hours |-> q] : q \in QuietConfigs}
    /\ DedupInit
    /\ SmartInit
    /\ MonitorInit
    /\ AnalyzerInit
    /\ min_baseline_days = MinBaselineDays

NextQuiet ==
    \/ \E d \in QuietSteps : Tick(d)
    \/ check_quiet_hours

SpecQuiet == InitQuiet /\ [][NextQuiet]_vars

\* a tracker fed by arbitrary observations beside the running monitor loop
LoopSteps == {MaxAgeSeconds + 1}

\* RealtimeMonitor.__init__: BehavioralAnalyzer(self.data_dir, min_baseline_days=0)
MonitorBaselineDays == 0

InitLoop ==
    /\ started = 0
    /\ now = started
    /\ DedupInit
    /\ config = DefaultConfig
    /\ SmartInit
    /\ MonitorInit
    /\ AnalyzerInit
    /\ min_baseline_days = MonitorBaselineDays

NextLoop ==
    \/ \E d \in LoopSteps : Tick(d)
    \/ \E c \in Cameras : new_image(c)
    \/ run_cycle
    \/ \E c \in Cameras, p \in Persons : should_alert(c, p, <<>>)

\* run_forever runs a cycle every interval_seconds, for ever, and time passes
SpecLoop ==
    /\ InitLoop
    /\ [][NextLoop]_vars
    /\ WF_vars(run_cycle)
    /\ WF_vars(\E d \in LoopSteps : Tick(d))


(***************************************************************************)
(* BehavioralAnalyzer driven by arbitrary callers.                         *)
(***************************************************************************)
\* record_movement is not called on a log of this many events
MaxEvents == 3

\* Monday 5 January 1970, 09:00
Monday9 == 4 * SecondsPerDay + 9 * 3600

\* a bounding box whose centre is (0.5, 0.5), in hundredths
CentreBBox == <<40, 40, 60, 60>>
\* a bounding box whose centre is (0.9, 0.9)
CornerBBox == <<80, 80, 100, 100>>

\* the analyzer of VigilHome (min_baseline_days = 7), started at time t
InitAnalyzerAt(t) ==
    /\ started = t
    /\ now = started
    /\ DedupInit
    /\ config = DefaultConfig
    /\ SmartInit
    /\ MonitorInit
    /\ AnalyzerInit
    /\ min_baseline_days = MinBaselineDays

\* events stamped, in any order, at 0, 3, just under 7 and 7 days
SpanTimestamps ==
    {Monday9, Monday9 + 3 * SecondsPerDay,
     Monday9 + MinBaselineDays * SecondsPerDay - 1,
     Monday9 + MinBaselineDays * SecondsPerDay}

InitSpan == InitAnalyzerAt(Monday9 + 8 * SecondsPerDay)

NextSpan ==
    \/ \E t \in SpanTimestamps :
          /\ Len(events) < MaxEvents
          /\ record_movement("hall", CentreBBox, "A", t)
    \/ has_sufficient_baseline

SpecSpan == InitSpan /\ [][NextSpan]_vars

(***************************************************************************)
(* A subject seen at one camera once a day, at the same time of day.       *)
(***************************************************************************)
\* the daily sightings stop after this many
MaxSightings == 10
\* the clock stops this many days after the start
MaxDays == 17

\* a day passes, once the day's sighting is recorded
DayPasses ==
    /\ Days(now - started) < MaxDays
    /\ \/ Len(events) >= MaxSightings
       \/ events # <<>> /\ events[Len(events)].timestamp = now
    /\ now' = now + SecondsPerDay
    /\ dcall' = NoCall
    /\ scall' = NoCall
    /\ acall' = NoCall
    /\ UNCHANGED <<started, active_detections, last_reminder, observed, true_returns>>
    /\ UNCHANGED <<config, last_alerts, active_persons, daily_images,
                   last_arrival, last_unknown,
                   last_detected>>
    /\ UNCHANGED monitorVars
    /\ UNCHANGED <<events, events_file, patterns, patterns_file,
                   min_baseline_days, building>>

\* the events that the caller asks detect_anomaly about: the subject at
\* (0.5, 0.52) and at (0.9, 0.9), and a subject never seen
DailyProbes ==
    {MovementEvent(now, "hall", "A", <<100, 104>>),
     MovementEvent(now, "hall", "A", <<180, 180>>),
     MovementEvent(now, "hall", "B", <<100, 100>>)}

\* the first sighting is at 09:00 on any day of the week
InitDaily ==
    \E d \in 0..6 : InitAnalyzerAt(Monday9 + d * SecondsPerDay)

NextDaily ==
    \/ /\ Len(events) < MaxSightings
       /\ IF events = <<>> THEN TRUE ELSE events[Len(events)].timestamp < now
       /\ record_movement("hall", CentreBBox, "A", now)
    \/ DayPasses
    \/ build_baseline(0)
    \/ \E event \in DailyProbes : detect_anomaly(event)

SpecDaily == InitDaily /\ [][NextDaily]_vars

(***************************************************************************)
(* Events of resolved and unresolved subjects, in two weekday buckets.     *)
(***************************************************************************)
\* the subjects given to record_movement: absent, the label "unknown", a name
BucketSubjects == {None, "unknown", "A"}
\* Tuesday 6 January 1970, 09:00
Tuesday9 == Monday9 + SecondsPerDay
BucketTimestamps == {Monday9, Tuesday9}
\* the events that the caller asks detect_anomaly about
BucketProbes ==
    {MovementEvent(Monday9, "hall", p, <<100, 100>>) : p \in BucketSubjects \cup {"B"}}
       \cup {MovementEvent(Tuesday9, "sala", p, <<100, 100>>) :
                p \in BucketSubjects \cup {"B"}}

\* the analyzer is started on Tuesday at 10:00: Monday 09:00 is more than a
\* day ago and Tuesday 09:00 is not
InitBuckets == InitAnalyzerAt(Tuesday9 + 3600)

NextBuckets ==
    \/ \E p \in BucketSubjects, t \in BucketTimestamps :
          /\ Len(events) < MaxEvents
          /\ record_movement("hall", CentreBBox, p, t)
    \/ \E days \in {0, 1} : build_baseline(days)
    \/ \E event \in BucketProbes : detect_anomaly(event)

SpecBuckets == InitBuckets /\ [][NextBuckets]_vars

(***************************************************************************)
(* One subject in one bucket, seen at two places of the frame.             *)
(***************************************************************************)
\* the positions that the caller asks detect_anomaly about: 0.02 and exactly
\* 0.1 from (0.5, 0.5), 0.02 from (0.9, 0.9), 0.35 from (0.5, 0.5), and 0.5
\* from (0.5, 0.5)
PositionProbes ==
    {MovementEvent(Monday9, "hall", "A", position) :
        position \in {<<100, 104>>, <<100, 120>>, <<180, 176>>, <<100, 170>>,
                      <<40, 20>>}}

InitPosition == InitAnalyzerAt(Tuesday9 + 3600)

NextPosition ==
    \/ \E bbox \in {CentreBBox, CornerBBox} :
          /\ Len(events) < MaxEvents
          /\ record_movement("hall", bbox, "A", Monday9)
    \/ build_baseline(0)
    \/ \E event \in PositionProbes : detect_anomaly(event)

SpecPosition == InitPosition /\ [][NextPosition]_vars

(***************************************************************************)
(* build_baseline on the logs that _load_data finds on disk: a number of   *)
(* events of one bucket, and possibly a later event at another camera.     *)
(***************************************************************************)
\* the loaded log has at most this many events in the bucket
MaxOccurrences == 50

\* the seconds from the events of the bucket to the later event (0: none)
FrequencySpans ==
    {0, SecondsPerDay - 1, SecondsPerDay, 2 * SecondsPerDay, 5 * SecondsPerDay}

LoadedLog(n, span) ==
    [i \in 1..n |-> MovementEvent(Monday9, "hall", "A", <<100, 100>>)]
       \o (IF span = 0
           THEN <<>>
           ELSE <<MovementEvent(Monday9 + span, "sala", "A", <<100, 100>>)>>)

\* lines 95-118: the analyzer is constructed on a directory that holds a log
InitFrequency ==
    /\ started = Monday9 + 6 * SecondsPerDay
    /\ now = started
    /\ DedupInit
    /\ config = DefaultConfig
    /\ SmartInit
    /\ MonitorInit
    /\ \E n \in 1..MaxOccurrences, span \in FrequencySpans : events = LoadedLog(n, span)
    /\ events_file = events
    /\ patterns = NoPatterns
    /\ patterns_file = NoPatterns
    /\ acall = NoCall
    /\ building = NoBuild
    /\ min_baseline_days = MinBaselineDays

NextFrequency == build_baseline(0)

SpecFrequency == InitFrequency /\ [][NextFrequency]_vars

(***************************************************************************)
(* detect_anomaly and record_movement called while build_baseline runs,    *)
(* from another thread or after an exception has ended the build.          *)
(***************************************************************************)
\* record_movement is not called on a log of this many events while builds
\* run in steps: four events fill two buckets
MaxConcurrentEvents == 4

ConcurrentProbes ==
    {MovementEvent(Monday9, "hall", "A", <<100, 100>>),
     MovementEvent(Tuesday9, "hall", None, <<100, 100>>)}

InitConcurrent == InitAnalyzerAt(Tuesday9 + 3600)

NextConcurrent ==
    \/ \E p \in {"A", None}, t \in BucketTimestamps :
          /\ Len(events) < MaxConcurrentEvents
          /\ record_movement("hall", CentreBBox, p, t)
    \/ build_begin(0)
    \/ build_step
    \/ build_save
    \/ build_interrupt
    \/ \E event \in ConcurrentProbes : detect_anomaly(event)

SpecConcurrent == InitConcurrent /\ [][NextConcurrent]_vars

(***************************************************************************)
(* RealtimeMonitor on its own: the cameras write images, cycles run, time  *)
(* passes by the status interval.                                          *)
(***************************************************************************)
MonitorSteps == {StatusInterval}

InitMonitor == InitLoop

NextMonitor ==
    \/ \E d \in MonitorSteps : Tick(d)
    \/ \E c \in Cameras : new_image(c)
    \/ run_cycle

SpecMonitor == InitMonitor /\ [][NextMonitor]_vars

(***************************************************************************)
(* VigilHome.process_frame over days: frames with no, one or two persons   *)
(* arrive, a day or a whole baseline period passes, and the baseline is    *)
(* rebuilt from the log at any moment.                                     *)
(***************************************************************************)
\* the clock stops this many days after the start
MaxFrameDays == 8

FrameSteps == {SecondsPerDay, MinBaselineDays * SecondsPerDay}

FrameDetections ==
    {<<>>,
     <<[class |-> "car", confidence |-> 90, bbox |-> CentreBBox]>>,
     <<[class |-> "person", confidence |-> 90, bbox |-> CentreBBox]>>,
     <<[class |-> "car", confidence |-> 90, bbox |-> CentreBBox],
       [class |-> "person", confidence |-> 90, bbox |-> CornerBBox]>>,
     <<[class |-> "person", confidence |-> 90, bbox |-> CentreBBox],
       [class |-> "person", confidence |-> 90, bbox |-> CornerBBox]>>}

TimePasses(d) ==
    /\ Days(now - started + d) <= MaxFrameDays
    /\ now' = now + d
    /\ dcall' = NoCall
    /\ scall' = NoCall
    /\ acall' = NoCall
    /\ UNCHANGED <<started, active_detections, last_reminder, observed, true_returns>>
    /\ UNCHANGED <<config, last_alerts, active_persons, daily_images,
                   last_arrival, last_unknown,
                   last_detected>>
    /\ UNCHANGED monitorVars
    /\ UNCHANGED <<events, events_file, patterns, patterns_file,
                   min_baseline_days, building>>

InitFrame == InitAnalyzerAt(Monday9)

NextFrame ==
    \/ \E detections \in FrameDetections :
          /\ Len(events) + Len(detections) <= MaxEvents
          /\ process_frame("hall", detections, NoTime)
    \/ \E d \in FrameSteps : TimePasses(d)
    \/ build_baseline(0)

SpecFrame == InitFrame /\ [][NextFrame]_vars

(***************************************************************************)
(* RealtimeMonitor in an environment that fails: a directory cannot be     *)
(* listed, a detection lacks a field, the log cannot be written, an alert  *)
(* cannot be sent.                                                         *)
(***************************************************************************)
FaultSteps == {StatusInterval}

InitFaults == InitLoop

NextFaults ==
    \/ \E d \in FaultSteps : Tick(d)
    \/ \E c \in Cameras : new_image(c)
    \/ run_cycle_faulty

SpecFaults == InitFaults /\ [][NextFaults]_vars

(***************************************************************************)
(* TextOnlyMonitor: a worker for each camera, the cameras writing images,  *)
(* time passing, and stop() called at any moment.                          *)
(***************************************************************************)
\* a step after which an alert of the same camera is allowed again; alerts
\* wanted at the time of the last one are within the minimum gap
TextSteps == {MinSecondsBetweenTextAlerts + 1}

InitText == InitLoop

NextText ==
    \/ \E d \in TextSteps : Tick(d)
    \/ \E c \in Cameras : new_image(c)
    \/ \E c \in Cameras, outcome \in TextOutcomes : monitor_camera(c, outcome)
    \/ \E c \in Cameras : monitor_camera_resume(c)
    \/ stop

SpecText == InitText /\ [][NextText]_vars

\* the same without the clock, and with workers that take the steps they can
\* take: a sleep ends and a send returns
NextStop ==
    \/ \E c \in Cameras : new_image(c)
    \/ \E c \in Cameras, outcome \in TextOutcomes : monitor_camera(c, outcome)
    \/ \E c \in Cameras : monitor_camera_resume(c)
    \/ stop

SpecStop ==
    /\ InitText
    /\ [][NextStop]_vars
    /\ \A c \in Cameras :
          /\ WF_vars(\E outcome \in TextOutcomes : monitor_camera(c, outcome))
          /\ WF_vars(monitor_camera_resume(c))

(***************************************************************************)
(* Claims about AlertDeduplicator, checked under Spec.                     *)
(***************************************************************************)
\* the call that has just returned is should_alert on the person the camera
\* was already tracking
SamePersonCall ==
    /\ dcall.op = "should_alert"
    /\ dcall.had
    /\ dcall.pre.person_name = dcall.person

\* C1: once a camera has a state (its first call answered True, Arrived),
\* a call for the same camera and person made no more than the cooldown after
\* the previous observation, whose non-person classes are all tracked already,
\* returns False (Unchanged).
C1_UnchangedWithinCooldown ==
    /\ (dcall.op = "should_alert" /\ ~dcall.had)
          => (dcall.ret = TRUE /\ dcall.branch = "arrived")
    /\ (/\ SamePersonCall
        /\ dcall.current_objects \subseteq dcall.pre.objects
        /\ now - dcall.pre.last_seen <= Cooldown)
          => dcall.ret = FALSE

C1_Witness ==
    /\ SamePersonCall
    /\ dcall.current_objects \subseteq dcall.pre.objects
    /\ dcall.pre.objects # {}
    /\ now - dcall.pre.last_seen = Cooldown
    /\ dcall.ret = FALSE

\* C2: a person whose last observation at a camera is older than the staleness
\* ceiling and who is observed again there is classified Arrived: the call
\* creates a fresh state with alert_count = 1.
C2_StaleReturnIsArrived ==
    (SamePersonCall /\ now - dcall.pre.last_seen > MaxAgeSeconds)
       => (/\ dcall.branch = "arrived"
           /\ active_detections[dcall.camera].alert_count = 1)

\* C7: the state map holds at most one DetectionState per camera key, and a
\* camera has a live state exactly when should_alert has observed it since its
\* state was last removed by mark_left or cleanup_old.
C7_OneLiveStatePerCamera ==
    /\ DOMAIN active_detections \subseteq Cameras
    /\ \A c \in DOMAIN active_detections :
          /\ active_detections[c].person_name \in Persons
          /\ active_detections[c].objects \subseteq Classes \ {"person"}
          /\ active_detections[c].last_seen \in started..now
          /\ active_detections[c].alert_count \in 1..MaxAlertCount
    /\ \A c \in Cameras : (c \in DOMAIN active_detections) <=> observed[c]

C7_Witness ==
    /\ dcall.op = "mark_left"
    /\ dcall.had
    /\ dcall.camera \notin DOMAIN active_detections
    /\ DOMAIN active_detections # {}

\* C8: when should_alert observes the tracked person with a class that is not
\* in the tracked set, it returns True and the tracked set afterwards contains
\* every previously tracked class and the new ones.
C8_NewObjectsExtendTrackedSet ==
    (SamePersonCall /\ dcall.current_objects \ dcall.pre.objects # {})
       => (/\ dcall.ret = TRUE
           /\ active_detections[dcall.camera].objects
                 = dcall.pre.objects \cup dcall.current_objects)

\* C9: any two "still here" reminders for a camera (should_alert answering
\* True through the cooldown branch) are more than the cooldown apart.
C9_RemindersOncePerCooldown ==
    (/\ dcall.op = "should_alert"
     /\ dcall.branch = "still_here"
     /\ dcall.prev_reminder # NoTime)
       => now - dcall.prev_reminder > Cooldown

C9_Witness ==
    /\ dcall.op = "should_alert"
    /\ dcall.branch = "still_here"
    /\ dcall.ret = TRUE
    /\ dcall.prev_reminder # NoTime
    /\ dcall.pre.person_name = dcall.person

(***************************************************************************)
(* Claims about SmartAlertManager, checked under SpecSmart and SpecQuiet.  *)
(***************************************************************************)
\* C3: any two unknown-person alerts sent by process_detection are more than
\* 300 seconds apart.
C3_UnknownAlertsRateLimited ==
    (/\ scall.op = "process_detection"
     /\ scall.sent = "unknown"
     /\ scall.prev_unknown # NoTime)
       => now - scall.prev_unknown > UnknownLimitSeconds

\* C4: any two arrival alerts for the same (camera, person) key are at least
\* min_time_between_alerts apart, and the time the cooldown is measured from
\* (last_alerts[key]) is the time the last arrival alert was sent for the key:
\* detections that produce no arrival alert do not move it.
C4_ArrivalsCooldownApart ==
    /\ (/\ scall.op = "process_detection"
        /\ scall.sent = "arrival"
        /\ scall.prev_arrival # NoTime)
          => now - scall.prev_arrival >= MinTimeBetweenAlerts
    /\ \A key \in SmartKeys :
          IF key \in DOMAIN last_alerts
          THEN last_alerts[key] = last_arrival[key]
          ELSE last_arrival[key] = NoTime

C4_Witness ==
    /\ scall.op = "process_detection"
    /\ scall.sent = "arrival"
    /\ scall.prev_arrival # NoTime
    /\ now - scall.prev_arrival = MinTimeBetweenAlerts
    /\ daily_images > 0

\* the description contains none of the emergency words, in whatever case
KeywordFree(description) ==
    \A e \in Emergencies : ~Contains(Lower(description), e)

\* C5: while quiet hours are active, process_detection on a description with
\* no emergency keyword sends nothing, returns None and leaves active_persons,
\* last_alerts and daily_images as they were.
C5_QuietHoursSuppress ==
    (/\ scall.op = "process_detection"
     /\ _is_quiet_hours
     /\ KeywordFree(scall.description))
       => (scall.sent = None /\ scall.ret = None /\ ~scall.changed)

C5_Witness ==
    /\ scall.op = "process_detection"
    /\ _is_quiet_hours
    /\ KeywordFree(scall.description)
    /\ scall.person = "unknown"
    /\ scall.ret = None
    /\ "sala:unknown" \in DOMAIN active_persons

\* C6: with quiet hours enabled and a start later than the end, _is_quiet_hours
\* is true exactly when the time of day is >= start or <= end; for 23:00-07:00
\* it is true at 23:30 and at 06:59 and false at 12:00.
C6_QuietHoursAcrossMidnight ==
    scall.op = "_is_quiet_hours" =>
       LET quiet == config.quiet_hours
           start == ParsedClock[quiet.start]
           end == ParsedClock[quiet.end]
           tod == TimeOfDay(now)
       IN  /\ (quiet.enabled /\ start > end)
                 => (scall.ret <=> (tod >= start \/ tod <= end))
           /\ quiet = QuietNight =>
                 /\ tod = 23 * 3600 + 30 * 60 => scall.ret = TRUE
                 /\ tod = 6 * 3600 + 59 * 60 => scall.ret = TRUE
                 /\ tod = 12 * 3600 => scall.ret = FALSE

C6_Witness ==
    /\ scall.op = "_is_quiet_hours"
    /\ config.quiet_hours = QuietNight
    /\ TimeOfDay(now) = 6 * 3600 + 59 * 60
    /\ scall.ret = TRUE

C6_WitnessEvening ==
    /\ scall.op = "_is_quiet_hours"
    /\ config.quiet_hours = QuietNight
    /\ TimeOfDay(now) = 23 * 3600 + 30 * 60
    /\ scall.ret = TRUE

C6_WitnessNoon ==
    /\ scall.op = "_is_quiet_hours"
    /\ config.quiet_hours = QuietNight
    /\ TimeOfDay(now) = 12 * 3600
    /\ scall.ret = FALSE

(***************************************************************************)
(* Claims about the monitor loop, checked under SpecLoop.                  *)
(***************************************************************************)
\* the presence state of camera c has gone unrefreshed beyond the ceiling
StaleState(c) ==
    /\ c \in DOMAIN active_detections
    /\ now - active_detections[c].last_seen > MaxAgeSeconds

\* C10: every presence state that goes unrefreshed for longer than the
\* staleness ceiling is eventually deleted, the running monitor loop sweeping
\* the tracker state.
C10_StaleStateEventuallyDeleted ==
    \A c \in Cameras : StaleState(c) ~> (c \notin DOMAIN active_detections)

(***************************************************************************)
(* Claims about BehavioralAnalyzer.                                        *)
(***************************************************************************)
\* the timestamps of the recorded events
EventTimes == {events[i].timestamp : i \in DOMAIN events}
\* the seconds between the oldest and the newest recorded event
EventSpan ==
    (CHOOSE t \in EventTimes : \A u \in EventTimes : u <= t)
       - (CHOOSE t \in EventTimes : \A u \in EventTimes : t <= u)

\* C11: whatever the order in which the event timestamps arrived,
\* has_sufficient_baseline() is false when the oldest and the newest recorded
\* event are less than min_baseline_days days apart (or nothing is recorded)
\* and true when they are min_baseline_days days apart or more.
C11_SufficientIffSpanReached ==
    acall.op = "has_sufficient_baseline" =>
       (acall.ret <=> (/\ events # <<>>
                       /\ EventSpan >= min_baseline_days * SecondsPerDay))

\* subject A was recorded at camera hall at 09:00 on each of 10 consecutive
\* days at position (0.5, 0.5), and the pattern map is the baseline built from
\* these events
TenDaysBaseline ==
    /\ Len(events) = 10
    /\ \A i \in DOMAIN events :
          events[i] = MovementEvent(started + (i - 1) * SecondsPerDay, "hall", "A",
                                    <<100, 100>>)
    /\ Hour(started) = 9
    /\ patterns = PatternsAfter(PatternEntries(events), Len(PatternEntries(events)))

\* C12: after subject A is recorded at camera hall at 09:00 on each of 10
\* consecutive days at (0.5, 0.5) and build_baseline is run, detect_anomaly on
\* a new event for A at hall at 09:00 at (0.5, 0.52) yields no anomaly, on
\* whichever weekday the new event falls.
C12_DailyRoutineNoAnomaly ==
    (/\ acall.op = "detect_anomaly"
     /\ TenDaysBaseline
     /\ acall.event.camera = "hall"
     /\ acall.event.person_id = "A"
     /\ Hour(acall.event.timestamp) = 9
     /\ acall.event.position = <<100, 104>>)
       => acall.ret = NoAnomaly

\* the keys of the patterns of the subject of `event', the unresolved subject
\* being one subject whether it is given as None or as "unknown"
KnownPatterns(event) ==
    {key \in DOMAIN patterns :
        OrUnknown(patterns[key].person_id) = OrUnknown(event.person_id)}

\* C13: when the pattern map is not empty and has no pattern for the event's
\* (subject, camera, hour, weekday) bucket, detect_anomaly returns
\* unknown_person (severity low) exactly when the subject has no pattern in
\* any bucket, and otherwise unusual_time_location (severity medium) with the
\* cameras of the subject's patterns, the unresolved subject included, whether
\* given as None or as "unknown".
C13_NoBucketClassification ==
    (/\ acall.op = "detect_anomaly"
     /\ DOMAIN patterns # {}
     /\ EventKey(acall.event) \notin DOMAIN patterns)
       => IF KnownPatterns(acall.event) = {}
          THEN /\ acall.ret.type = "unknown_person"
               /\ acall.ret.severity = "low"
          ELSE /\ acall.ret.type = "unusual_time_location"
               /\ acall.ret.severity = "medium"
               /\ acall.ret.typical_locations =
                     {patterns[key].camera : key \in KnownPatterns(acall.event)}

\* the squares of the distances from the position of the event that
\* detect_anomaly was asked about to the typical positions stored for its
\* bucket
ProbeDistances ==
    LET typical == patterns[EventKey(acall.event)].typical_positions
    IN  {DistanceSq(typical[i], acall.event.position) : i \in DOMAIN typical}

\* C14: when a pattern exists for the event's bucket, detect_anomaly does not
\* return unusual_position for an event within 0.1 of some stored typical
\* position, returns unusual_position for an event whose smallest distance to
\* the stored typical positions is 0.5, and in general returns it exactly
\* when the smallest distance exceeds 0.3 (distances of exactly 0.3 are not
\* among the inputs: there the floating-point subtraction decides).
C14_UnusualPositionThreshold ==
    (/\ acall.op = "detect_anomaly"
     /\ EventKey(acall.event) \in DOMAIN patterns)
       => /\ (\E d \in ProbeDistances : d <= 20 * 20)
                => acall.ret.type # "unusual_position"
          /\ (/\ ProbeDistances # {}
              /\ \A d \in ProbeDistances : d >= 100 * 100
              /\ 100 * 100 \in ProbeDistances)
                => acall.ret.type = "unusual_position"
          /\ acall.ret.type = "unusual_position"
                <=> (/\ ProbeDistances # {}
                     /\ \A d \in ProbeDistances :
                           d > PositionThreshold * PositionThreshold)

\* an event within 0.1 of one stored position and beyond 0.3 from another
C14_Witness ==
    /\ acall.op = "detect_anomaly"
    /\ EventKey(acall.event) \in DOMAIN patterns
    /\ \E d \in ProbeDistances : d <= 20 * 20
    /\ \E d \in ProbeDistances : d > PositionThreshold * PositionThreshold
    /\ acall.ret = NoAnomaly

\* an event at 0.5 from the nearest stored position
C14_WitnessHalf ==
    /\ acall.op = "detect_anomaly"
    /\ EventKey(acall.event) \in DOMAIN patterns
    /\ Cardinality(ProbeDistances) = 2
    /\ \A d \in ProbeDistances : d >= 100 * 100
    /\ 100 * 100 \in ProbeDistances
    /\ acall.ret.type = "unusual_position"

\* the number of analysed events in the bucket of pattern key `key'
OccurrencesOf(key) ==
    Cardinality({i \in DOMAIN acall.window : EventKey(acall.window[i]) = key})
\* max(1, days spanned by the analysed events)
DaysSpanned == IF Days(EventSpan) < 1 THEN 1 ELSE Days(EventSpan)

\* C15: the frequency score that build_baseline computes lies in [0, 1], does
\* not decrease when the bucket's occurrence count grows with the day span
\* fixed, and equals min(occurrences / max(1, days spanned) / 10, 1): 5
\* occurrences over 1 day give 0.5 and 50 occurrences over 1 day give 1.0.
C15_FrequencyScoreClamped ==
    (acall.op = "build_baseline" /\ acall.ret = "summary") =>
       \A key \in DOMAIN patterns :
          LET score == patterns[key].frequency_score
              n == OccurrencesOf(key)
              cap == OccurrencesPerDayCap * DaysSpanned
          IN  /\ score.den > 0
              /\ 0 <= score.num
              /\ score.num <= score.den
              /\ score.num * cap = (IF n <= cap THEN n ELSE cap) * score.den
              /\ RatLe(score, FrequencyScore(n + 1, DaysSpanned))
              /\ (n = 5 /\ DaysSpanned = 1) => score.num * 2 = score.den
              /\ (n = 50 /\ DaysSpanned = 1) => score.num = score.den

\* 50 occurrences over one day: the score is 1.0
C15_Witness ==
    /\ acall.op = "build_baseline"
    /\ acall.ret = "summary"
    /\ \E key \in DOMAIN patterns :
          /\ OccurrencesOf(key) = 50
          /\ DaysSpanned = 1
          /\ Days(EventSpan) = 1
          /\ patterns[key].frequency_score.num = patterns[key].frequency_score.den

\* 5 occurrences within one day: the score is 0.5
C15_WitnessHalf ==
    /\ acall.op = "build_baseline"
    /\ acall.ret = "summary"
    /\ \E key \in DOMAIN patterns :
          /\ OccurrencesOf(key) = 5
          /\ Days(EventSpan) = 0
          /\ patterns[key].frequency_score.num * 2 = patterns[key].frequency_score.den

\* C16: record_movement appends exactly one event to the event log (the list
\* in memory and the log file) and leaves the baseline alone: the pattern map
\* in memory and the pattern snapshot file are as they were before the call.
C16_RecordLeavesPatterns ==
    acall.op = "record_movement" =>
       /\ events = Append(acall.pre_events, acall.event)
       /\ events_file = Append(acall.pre_events_file, acall.event)
       /\ patterns = acall.pre_patterns
       /\ patterns_file = acall.pre_patterns_file

\* a third event recorded after a baseline was built
C16_Witness ==
    /\ acall.op = "record_movement"
    /\ Len(events) = 3
    /\ DOMAIN patterns # {}
    /\ patterns_file = patterns
    /\ acall.event.position = <<180, 180>>

\* C17: after a build_baseline that analysed events, the keys of the pattern
\* map are exactly the (subject-or-unknown, camera, hour, weekday) buckets
\* that hold at least one analysed event; an entry of the previous map is
\* there only if its bucket is one of these.
C17_PatternsProjectWindow ==
    (acall.op = "build_baseline" /\ acall.ret = "summary") =>
       DOMAIN patterns = {EventKey(acall.window[i]) : i \in DOMAIN acall.window}

\* C18: a detect_anomaly that runs while build_baseline is running, or after
\* build_baseline was interrupted, reads either the complete pattern map of
\* before the build or the complete new one, never an empty or partly filled
\* map.
C18_ReadersSeeCompleteMap ==
    acall.op = "detect_anomaly" =>
       (acall.seen = acall.previous \/ acall.seen = acall.target)

(***************************************************************************)
(* Claims about RealtimeMonitor.run_cycle, checked under SpecMonitor.      *)
(***************************************************************************)
\* C19: over any sequence of run_cycle calls each image path is passed to
\* process_image at most once, whether or not its processing failed: the
\* paths passed once are the paths in processed_images, and no later cycle
\* passes them again.
C19_ImagesProcessedOnce ==
    /\ \A path \in AllPaths :
          /\ handed[path] <= 1
          /\ handed[path] = 1 <=> path \in processed_images
    /\ acall.op = "run_cycle" => acall.new \subseteq processed_images

\* a cycle that found the camera directories and no new image, after the
\* processing of an image had failed
C19_Witness ==
    /\ acall.op = "run_cycle"
    /\ acall.new = {}
    /\ get_camera_dirs # {}
    /\ stats.errors >= 1
    /\ \E path \in AllPaths : handed[path] = 1


(***************************************************************************)
(* Claims about the per-frame pipeline, checked under SpecFrame.           *)
(***************************************************************************)
PersonDetections(detections) == SelectSeq(detections, LAMBDA det : det.class = "person")

\* every person of the frame is the event of one call, in order, and these
\* events end the log in memory and the log on disk
PersonsRecorded ==
    LET n == Len(acall.calls) IN
    /\ n = Len(PersonDetections(acall.detections))
    /\ Len(events) >= n /\ Len(events_file) >= n
    /\ \A i \in 1..n :
          /\ events[Len(events) - n + i] = acall.calls[i].event
          /\ events_file[Len(events_file) - n + i] = acall.calls[i].event
          /\ acall.calls[i].event.position =
                Centre(PersonDetections(acall.detections)[i].bbox)

\* C20: in the per-frame pipeline every detected person is recorded in the
\* baseline log, detect_anomaly is run on the recorded event only when
\* has_sufficient_baseline() is true, and while the baseline is insufficient
\* no anomaly is produced.
C20_DetectOnlyWhenSufficient ==
    acall.op = "process_frame" =>
       /\ PersonsRecorded
       /\ \A i \in DOMAIN acall.calls : acall.calls[i].sufficient
       /\ (\E i \in DOMAIN acall.calls : ~acall.calls[i].sufficient)
             => acall.anomaly = NoAnomaly

\* the part of C20 that the pipeline keeps: the persons are recorded
C20_PersonsRecorded == acall.op = "process_frame" => PersonsRecorded

\* the part of C20 about the result alone
C20_NoAnomalyWhileInsufficient ==
    acall.op = "process_frame" =>
       \A i \in DOMAIN acall.calls :
          ~acall.calls[i].sufficient => acall.calls[i].ret = NoAnomaly

C20_WitnessSufficient ==
    /\ acall.op = "process_frame"
    /\ acall.calls # <<>>
    /\ \A i \in DOMAIN acall.calls : acall.calls[i].sufficient
    /\ acall.anomaly # NoAnomaly

\* the place of an image among the files of its camera, oldest first
FileIndex(camera, path) ==
    CHOOSE n \in DOMAIN files[camera] : files[camera][n] = path

\* C21: in every run_cycle, the new images of a camera are passed to
\* process_image oldest first, so that a camera's stream is processed in
\* non-decreasing source-timestamp order.
C21_OldestFirst ==
    acall.op = "run_cycle" =>
       \A i, j \in DOMAIN acall.passed :
          (i < j /\ acall.passed[i].camera = acall.passed[j].camera) =>
             FileIndex(acall.passed[i].camera, acall.passed[i].path)
                < FileIndex(acall.passed[j].camera, acall.passed[j].path)

\* what the code does instead: a camera's new images are passed newest first
C21_NewestFirst ==
    acall.op = "run_cycle" =>
       \A i, j \in DOMAIN acall.passed :
          (i < j /\ acall.passed[i].camera = acall.passed[j].camera) =>
             FileIndex(acall.passed[i].camera, acall.passed[i].path)
                > FileIndex(acall.passed[j].camera, acall.passed[j].path)

HasStatus(alerts) == \E i \in DOMAIN alerts : alerts[i].kind = "status"

\* C22: every run_cycle executed when at least status_interval has elapsed
\* since the last status report emits a status report, whether or not any
\* camera directory or new image exists in that cycle.
C22_StatusReportWhenDue ==
    (acall.op = "run_cycle" /\ acall.status_due) => HasStatus(acall.queued)

\* what the code does: the report is emitted when it is due and a camera
\* directory exists, and only then
C22_StatusReportWithDirs ==
    acall.op = "run_cycle" =>
       (HasStatus(acall.queued) <=> (acall.status_due /\ acall.dirs # {}))

C22_WitnessNoNewImage ==
    /\ acall.op = "run_cycle"
    /\ acall.new = {}
    /\ HasStatus(acall.queued)

(***************************************************************************)
(* Claims about RealtimeMonitor.run_forever, checked under SpecFaults.     *)
(***************************************************************************)
\* every alert queued in the iteration was queued for an image that was new in
\* it, or is the one status report that was due
QueuedThisCycle ==
    /\ \A i \in DOMAIN acall.queued :
          IF acall.queued[i].kind = "person"
          THEN acall.queued[i].media \in acall.new
          ELSE acall.status_due
    /\ \A i, j \in DOMAIN acall.queued : acall.queued[i] = acall.queued[j] => i = j

\* the alerts attempted are the alerts queued, one attempt each
AttemptedOnce ==
    /\ Len(acall.attempts) = Len(acall.queued)
    /\ \A i \in DOMAIN acall.queued : acall.attempts[i].alert = acall.queued[i]

\* C23: every notification queued in a monitoring cycle gets exactly one
\* dispatch attempt: a notification whose dispatch fails or times out is
\* logged and dropped, never re-queued or re-attempted in a later cycle.
C23_OneDispatchAttempt ==
    acall.op = "run_cycle" => (QueuedThisCycle /\ AttemptedOnce)

\* what holds: exactly one attempt, unless the iteration ended with an
\* exception that left run_forever
C23_OneAttemptUnlessRaised ==
    acall.op = "run_cycle" =>
       /\ QueuedThisCycle
       /\ ~acall.raised => AttemptedOnce
       /\ acall.raised => acall.attempts = <<>>

C23_WitnessFailedDispatch ==
    /\ acall.op = "run_cycle"
    /\ \E i \in DOMAIN acall.attempts :
          /\ acall.attempts[i].result = "failed"
          /\ acall.attempts[i].alert.kind = "person"
    /\ \E i \in DOMAIN acall.attempts : acall.attempts[i].alert.kind = "status"

\* C24: no error raised after startup is fatal to the worker loop: after any
\* failure while listing or reading new images, detecting, recording, anomaly
\* checking, queuing or dispatching an alert, run_forever continues with the
\* next image or cycle and does not terminate.
C24_LoopNeverTerminates == monitor_pc = "running"

\* what holds: run_forever is left only by the exception of a listing
C24_OnlyListingIsFatal ==
    /\ monitor_pc = "crashed" => (acall.op = "run_cycle" => acall.raised)
    /\ (acall.op = "run_cycle" /\ ~acall.raised) => monitor_pc = "running"

C24_WitnessSurvives ==
    /\ acall.op = "run_cycle"
    /\ monitor_pc = "running"
    /\ \E path \in acall.new : acall.answers[path] = "malformed"
    /\ \E path \in acall.new : acall.answers[path] = "unwritable"
    /\ \E i \in DOMAIN acall.attempts : acall.attempts[i].result = "timeout"

\* the entries of a batch that have the three keys and a bbox of four numbers
WellFormed(d) ==
    IF {"class", "confidence", "bbox"} \subseteq DOMAIN d
    THEN Len(d.bbox) = 4
    ELSE FALSE

WellFormedPersons(detections) ==
    SelectSeq(detections,
              LAMBDA d : IF WellFormed(d) THEN d.class = "person" ELSE FALSE)

HasMalformed(detections) == \E i \in DOMAIN detections : ~WellFormed(detections[i])

\* the batch that the detector returned for the i-th image passed
BatchOf(i) == DetectorAnswer(acall.answers[acall.passed[i].path])

\* the events recorded in memory for the i-th image passed are those of the
\* persons `persons', in order
RecordedFor(i, persons) ==
    LET path == acall.passed[i].path IN
    IF path \notin DOMAIN acall.logged
    THEN FALSE
    ELSE /\ Len(acall.logged[path].events) = Len(persons)
         /\ \A k \in DOMAIN persons :
               acall.logged[path].events[k] =
                  NewEvent(acall.passed[i].camera, persons[k].bbox, None, now)

\* C25: a malformed entry in a detection batch is dropped without stopping
\* the batch: every remaining well-formed person entry of the same batch is
\* still recorded and the batch still goes through the alert decision.
C25_MalformedEntryDropped ==
    acall.op = "run_cycle" =>
       \A i \in DOMAIN acall.passed :
          HasMalformed(BatchOf(i).detections) =>
             /\ acall.passed[i].path \in acall.decided
             /\ RecordedFor(i, WellFormedPersons(BatchOf(i).detections))

\* what the code does: nothing of a batch with a malformed person is recorded
C25_MalformedBatchUnrecorded ==
    acall.op = "run_cycle" =>
       \A i \in DOMAIN acall.passed :
          HasMalformed(BatchOf(i).detections) =>
             /\ RecordedFor(i, <<>>) \/ acall.passed[i].path \notin acall.decided
             /\ acall.passed[i].path \in acall.decided
                   <=> acall.answers[acall.passed[i].path] = "badbox"

\* C26: if the write to the event log fails during record_movement, the
\* event is nevertheless present in the in-memory event list, and the
\* processing of the current image continues through the alert decision
\* instead of aborting the loop.
C26_FailedWriteKeepsEvent ==
    acall.op = "run_cycle" =>
       \A i \in DOMAIN acall.passed :
          ~BatchOf(i).writable =>
             /\ RecordedFor(i, <<Head(PersonsOf(BatchOf(i).detections))>>)
             /\ \E k \in DOMAIN events :
                   events[k] = acall.logged[acall.passed[i].path].events[1]
             /\ acall.logged[acall.passed[i].path].written = <<>>
             /\ acall.passed[i].path \in acall.decided
             /\ acall.raised \/ monitor_pc = "running"

C26_Witness ==
    /\ acall.op = "run_cycle"
    /\ ~acall.raised
    /\ monitor_pc = "running"
    /\ \E i \in DOMAIN acall.passed :
          /\ ~BatchOf(i).writable
          /\ acall.passed[i].path \in acall.decided
          /\ \E j \in DOMAIN acall.attempts :
                /\ acall.attempts[j].alert.kind = "person"
                /\ acall.attempts[j].alert.media = acall.passed[i].path
    /\ Len(events) > Len(events_file)

(***************************************************************************)
(* Claims about TextOnlyMonitor, checked under SpecStop and SpecText.      *)
(***************************************************************************)
AllWorkersDone == \A c \in Cameras : workers[c].pc = "done"

\* C27: after stop() is called, every monitor_camera worker observes the stop
\* signal between batches and terminates after completing at most its
\* current iteration, starting no further detection pass (under fair
\* scheduling of the workers).
C27_StopTerminatesWorkers ==
    /\ [][~running =>
            \A c \in Cameras :
               /\ workers'[c].detected = workers[c].detected
               /\ workers[c].pc = "idle" => workers'[c].pc \in {"idle", "done"}
               /\ workers[c].pc = "done" => workers'[c].pc = "done"]_vars
    /\ ~running ~> AllWorkersDone

C27_Witness ==
    /\ ~running
    /\ AllWorkersDone
    /\ \E c \in Cameras : workers[c].detected >= 1 /\ text_sent[c] # <<>>
    /\ \E c \in Cameras :
          /\ workers[c].last_processed # None
          /\ files[c] # <<>>
          /\ files[c][Len(files[c])] # workers[c].last_processed

\* the dicts d1 and d2 agree on the key: both lack it, or both hold the same
SameEntry(d1, d2, key) ==
    /\ key \in DOMAIN d1 <=> key \in DOMAIN d2
    /\ key \in DOMAIN d1 => d1[key] = d2[key]

\* C28: under any interleaving of the monitor_camera workers at their await
\* points, the worker for camera c reads and writes only the person_present
\* and last_alert_time entries keyed by c, so each camera's presence state
\* and notification sequence are the same as if its worker ran alone.
C28_WorkersIndependent ==
    \A c \in Cameras :
       /\ DOMAIN alone[c].person_present \subseteq {c}
       /\ DOMAIN alone[c].last_alert_time \subseteq {c}
       /\ workers[c].pc # "sending" =>
             /\ SameEntry(person_present, alone[c].person_present, c)
             /\ SameEntry(text_last_alert_time, alone[c].last_alert_time, c)
             /\ text_sent[c] = alone[c].sent

\* a worker has sent and written its entries while the other worker was
\* inside its send, and the clock has moved between the two
C28_Witness ==
    \E c, d \in Cameras :
       /\ c # d
       /\ workers[c].pc = "sending"
       /\ workers[d].pc = "idle"
       /\ Len(text_sent[d]) >= 1
       /\ d \in DOMAIN person_present
       /\ text_last_alert_time[d] > workers[c].current_time

(***************************************************************************)
(* Claims about the event log.                                             *)
(***************************************************************************)
\* 1.0 on the scale of the positions, which are in two-hundredths
One == 2 * 100

Normalized(position) ==
    /\ 0 <= position[1] /\ position[1] <= One
    /\ 0 <= position[2] /\ position[2] <= One

\* C29: every MovementEvent created by record_movement has a normalized
\* position: both coordinates of the bounding-box centre lie in [0,1], for
\* every bounding box supplied by the detector in pixel coordinates.
C29_PositionsNormalized ==
    \A i \in DOMAIN events : Normalized(events[i].position)

\* what the code does: the position is the centre of the box as supplied
C29_PositionIsCentre ==
    acall.op = "run_cycle" =>
       \A i \in DOMAIN acall.calls :
          acall.calls[i].event.position \in {Centre(PersonBBox), Centre(SecondBBox)}

(***************************************************************************)
(* The event log on disk.  events_file holds, line by line, the event that *)
(* _save_event was given; the text of the line is Line(event), and a new   *)
(* analyzer reads the events back from that text.  Timestamps are seconds  *)
(* since 1 January 1970, positions are two-hundredths of the bbox unit and *)
(* confidences are hundredths; a str is a TLA+ string in the program and a *)
(* sequence of characters in the file; a JSON array is read as a list,     *)
(* [list |-> items], which is not the tuple it was written from.           *)
(***************************************************************************)
\* the date of day number z since 1 January 1970, as <<year, month, day>>
CivilFromDays(z) ==
    LET shifted == z + 719468
        era == shifted \div 146097
        doe == shifted - era * 146097
        yoe == (doe - doe \div 1460 + doe \div 36524 - doe \div 146096) \div 365
        doy == doe - (365 * yoe + yoe \div 4 - yoe \div 100)
        mp == (5 * doy + 2) \div 153
        day == doy - (153 * mp + 2) \div 5 + 1
        month == IF mp < 10 THEN mp + 3 ELSE mp - 9
        year == yoe + era * 400 + (IF month <= 2 THEN 1 ELSE 0)
    IN  <<year, month, day>>

\* the day number since 1 January 1970 of a date
DaysFromCivil(year, month, day) ==
    LET y == IF month <= 2 THEN year - 1 ELSE year
        era == y \div 400
        yoe == y - era * 400
        doy == (153 * (IF month > 2 THEN month - 3 ELSE month + 9) + 2) \div 5
                  + day - 1
        doe == yoe * 365 + yoe \div 4 - yoe \div 100 + doy
    IN  era * 146097 + doe - 719468

\* f"{n:0{width}d}"
RECURSIVE ZeroPadded(_, _)
ZeroPadded(n, width) ==
    IF width = 0 THEN <<>>
    ELSE Append(ZeroPadded(n \div 10, width - 1), DigitChars[(n % 10) + 1])

\* datetime.isoformat() of a timestamp without microseconds
isoformat(t) ==
    LET date == CivilFromDays(t \div SecondsPerDay)
        tod == TimeOfDay(t)
    IN  ZeroPadded(date[1], 4) \o <<"-">> \o ZeroPadded(date[2], 2) \o <<"-">>
           \o ZeroPadded(date[3], 2) \o <<"T">>
           \o ZeroPadded(tod \div 3600, 2) \o <<":">>
           \o ZeroPadded((tod % 3600) \div 60, 2) \o <<":">>
           \o ZeroPadded(tod % 60, 2)

fromisoformat_minutes(text) ==
    DaysFromCivil(ParseInt(SubSeq(text, 1, 4)), ParseInt(SubSeq(text, 6, 7)),
                  ParseInt(SubSeq(text, 9, 10))) * SecondsPerDay
       + ParseInt(SubSeq(text, 12, 13)) * 3600
       + ParseInt(SubSeq(text, 15, 16)) * 60
\* datetime.fromisoformat(text)
fromisoformat(text) ==
    DaysFromCivil(ParseInt(SubSeq(text, 1, 4)), ParseInt(SubSeq(text, 6, 7)),
                  ParseInt(SubSeq(text, 9, 10))) * SecondsPerDay
       + ParseInt(SubSeq(text, 12, 13)) * 3600
       + ParseInt(SubSeq(text, 15, 16)) * 60
       + ParseInt(SubSeq(text, 18, 19))

\* the digits of a fraction without its trailing zeros, one digit at least
RECURSIVE StripZeros(_)
StripZeros(digits) ==
    IF Len(digits) > 1 /\ digits[Len(digits)] = "0"
    THEN StripZeros(SubSeq(digits, 1, Len(digits) - 1))
    ELSE digits

\* the digits of a fraction, filled with zeros to three
RECURSIVE ZeroFilled(_)
ZeroFilled(digits) ==
    IF Len(digits) >= 3 THEN digits ELSE ZeroFilled(Append(digits, "0"))

\* float.__repr__ of n / scale, as json.dumps writes a float
FloatRepr(n, scale) ==
    FormatInt(n \div scale) \o <<".">>
       \o StripZeros(ZeroPadded((n % scale) * (1000 \div scale), 3))

\* float(text), in units of 1 / scale
ParseFloat(text, scale) ==
    LET dot == LastIndexOf(text, ".")
    IN  ParseInt(SubSeq(text, 1, dot - 1)) * scale
           + ParseInt(ZeroFilled(SubSeq(text, dot + 1, Len(text))))
                \div (1000 \div scale)

\* MovementEvent(timestamp, camera, person_id, position, confidence)
LoggedEvent(timestamp, camera, person_id, position, confidence) ==
    [timestamp |-> timestamp, camera |-> camera, person_id |-> person_id,
     position |-> position, confidence |-> confidence]

\* MovementEvent.to_dict
to_dict(event) ==
    [timestamp |-> isoformat(event.timestamp), camera |-> event.camera,
     person_id |-> event.person_id, position |-> event.position,
     confidence |-> event.confidence]

\* json.dumps of the dict of an event: the members of the JSON object
dumps(data) ==
    [timestamp |-> [string |-> data.timestamp],
     camera |-> [string |-> NameChars[data.camera]],
     person_id |-> IF data.person_id = None
                   THEN [null |-> TRUE]
                   ELSE [string |-> NameChars[data.person_id]],
     position |-> [array |-> [i \in DOMAIN data.position |->
                                 [number |-> FloatRepr(data.position[i], One)]]],
     confidence |-> [number |-> FloatRepr(data.confidence, 100)]]

\* json.loads of a line of the log
loads(line) ==
    [timestamp |-> line.timestamp.string,
     camera |-> Text(line.camera.string),
     person_id |-> IF "null" \in DOMAIN line.person_id
                   THEN None
                   ELSE Text(line.person_id.string),
     position |-> [list |-> [i \in DOMAIN line.position.array |->
                                ParseFloat(line.position.array[i].number, One)]],
     confidence |-> ParseFloat(line.confidence.number, 100)]

\* tuple(data["position"])
PositionOf(position) == position.list

\* MovementEvent.from_dict
from_dict(data) ==
    LoggedEvent(fromisoformat(data.timestamp), data.camera, data.person_id,
                PositionOf(data.position), data.confidence)

\* the line that _save_event writes for an event
Line(event) == dumps(to_dict(event))

\* the events that _load_data reads from the lines of the log
LoadEvents(file) == [i \in DOMAIN file |-> from_dict(loads(Line(file[i])))]

\* record_movement with its confidence argument
record_movement_confidence(camera, bbox, confidence, person_id, timestamp) ==
    \E made \in {NewEvent(camera, bbox, person_id, timestamp)} :
    \E event \in {LoggedEvent(made.timestamp, made.camera, made.person_id,
                              made.position, confidence)} :
        /\ events' = EventsAfterRecord(events, event)
        /\ events_file' = Append(events_file, event)
        /\ acall' = [op |-> "record_movement", event |-> event,
                     pre_events |-> events, pre_events_file |-> events_file,
                     pre_patterns |-> patterns,
                     pre_patterns_file |-> patterns_file]
        /\ UNCHANGED <<patterns, patterns_file, min_baseline_days, building>>
        /\ UNCHANGED <<clockVars, dedupVars, smartVars, monitorVars>>

\* BehavioralAnalyzer(data_dir) on the directory of the running analyzer,
\* which it replaces: the in-memory lists start empty and _load_data fills them
open_analyzer ==
    /\ events' = LoadEvents(events_file)
    /\ patterns' = patterns_file
    /\ building' = NoBuild
    /\ acall' = [op |-> "open", pre_events |-> events,
                 pre_events_file |-> events_file]
    /\ UNCHANGED <<events_file, patterns_file, min_baseline_days>>
    /\ UNCHANGED <<clockVars, dedupVars, smartVars, monitorVars>>

\* 29 February 1972, 23:59:59
LeapDay == (2 * 365 + 31 + 28) * SecondsPerDay + 23 * 3600 + 59 * 60 + 59
\* 31 December 1970, 00:00:07
NewYearsEve == 364 * SecondsPerDay + 7
\* a bounding box whose centre is (0.505, 0.125)
OffCentreBBox == <<41, 10, 60, 15>>

\* the calls made: pixel and normalized boxes, a known and an unknown
\* subject, given timestamps and the clock
LogCalls ==
    { [camera |-> "sala", bbox |-> PersonBBox, confidence |-> 87,
       person_id |-> None, timestamp |-> LeapDay],
      [camera |-> "hall", bbox |-> OffCentreBBox, confidence |-> 100,
       person_id |-> "A", timestamp |-> NewYearsEve],
      [camera |-> "cozinha", bbox |-> CentreBBox, confidence |-> 5,
       person_id |-> "B", timestamp |-> NoTime],
      [camera |-> "hall", bbox |-> CornerBBox, confidence |-> 50,
       person_id |-> "A", timestamp |-> Monday9] }

InitLog == InitAnalyzerAt(Tuesday9 + 3600)

NextLog ==
    \/ \E call \in LogCalls :
          /\ Len(events_file) < MaxEvents
          /\ record_movement_confidence(call.camera, call.bbox, call.confidence,
                                        call.person_id, call.timestamp)
    \/ open_analyzer
    \/ build_baseline(0)

SpecLog == InitLog /\ [][NextLog]_vars

\* evs is a prefix of longer
IsPrefix(evs, longer) ==
    Len(evs) <= Len(longer) /\ SubSeq(longer, 1, Len(evs)) = evs

\* C30: a new analyzer opened on the data directory loads exactly the events
\* that were recorded, in the same order and with equal timestamp, camera,
\* subject, position and confidence, and every step leaves the events logged
\* so far where they were and as they were, in the file and in memory.
C30_LogRoundTrips ==
    /\ [](acall.op = "open" =>
             /\ events = acall.pre_events
             /\ events = events_file)
    /\ [][/\ IsPrefix(events_file, events_file')
          /\ IsPrefix(events, events')]_vars

C30_Witness ==
    /\ acall.op = "open"
    /\ Len(events) = MaxEvents
    /\ \E i, j \in DOMAIN events :
          /\ i < j
          /\ events[i].person_id = None /\ events[i].timestamp = LeapDay
          /\ events[i].position = Centre(PersonBBox)
          /\ events[j].person_id = "A" /\ events[j].position = Centre(OffCentreBBox)
          /\ events[j].confidence = 100

(***************************************************************************)
(* Claims about anomaly checks without a baseline.                         *)
(***************************************************************************)
\* C31: with an empty pattern map detect_anomaly returns no result for every
\* event, whatever its subject, camera and time, and leaves the event list,
\* the event log, the pattern map and the pattern file as they were.
C31_NoBaselineNoResult ==
    (acall.op = "detect_anomaly" /\ acall.seen = NoPatterns) =>
       /\ acall.ret = NoAnomaly
       /\ acall.pre = <<events, events_file, patterns, patterns_file>>

\* events are logged, no baseline was built, and the check is asked about
\* an event without a subject
C31_Witness ==
    /\ acall.op = "detect_anomaly"
    /\ acall.seen = NoPatterns
    /\ Len(events) = MaxEvents
    /\ acall.event.person_id = None

(***************************************************************************)
(* A person who stays in front of a camera: process_detection is called    *)
(* for the same camera and person at intervals of about a minute.          *)
(***************************************************************************)
\* the clock step of these runs: just over half of the two minutes of
\* _has_person_left
DepartureSteps == {LeftAfterSeconds \div 2 + 1}

InitDeparture == Init

NextDeparture ==
    \/ \E d \in DepartureSteps : Tick(d)
    \/ \E c \in SmartCameras :
          process_detection_watched(c, "augusto", <<"o", "k">>)
    \/ cleanup_old_tracking

SpecDeparture == InitDeparture /\ [][NextDeparture]_vars

\* C32: a "left" notification for a camera and person is sent only when the
\* person was last detected at that camera more than two minutes before;
\* a person detected again within two minutes is never reported as having
\* left.
C32_LeftOnlyAfterAbsence ==
    (scall.op = "process_detection" /\ scall.sent = "left") =>
       /\ scall.prev_detected # NoTime
       /\ now - scall.prev_detected > LeftAfterSeconds

\* what the code guarantees: a "left" notification is sent more than two
\* minutes after the arrival notification, whenever the person was seen since
C32_LeftAfterArrival ==
    (scall.op = "process_detection" /\ scall.sent = "left") =>
       /\ scall.prev_arrival # NoTime
       /\ now - scall.prev_arrival > LeftAfterSeconds

(***************************************************************************)
(* A person who stays in view: should_alert is called for the camera at    *)
(* intervals of about half the cooldown, and its True returns are counted. *)
(***************************************************************************)
\* the clock step of these runs: just over half of the cooldown
StaySteps == {Cooldown \div 2 + 1}

InitStay == Init

NextStay ==
    \/ \E d \in StaySteps : Tick(d)
    \/ \E p \in Persons, o \in {<<"person">>, <<"person", "dog">>} :
          should_alert_watched("sala", p, o)
    \/ mark_left("sala")

SpecStay == InitStay /\ [][NextStay]_vars

\* C33: when should_alert observes the tracked person of a camera again with
\* no new object, and its last True return for that camera is more than the
\* cooldown ago, it returns True (the "still here" reminder).
C33_StillHereReminder ==
    (/\ dcall.op = "should_alert"
     /\ dcall.had
     /\ dcall.pre.person_name = dcall.person
     /\ dcall.current_objects \subseteq dcall.pre.objects
     /\ dcall.prev_alerted # NoTime
     /\ now - dcall.prev_alerted > Cooldown)
       => dcall.ret

\* what the code guarantees: the reminder is sent when the person was last
\* observed, with or without an alert, more than the cooldown ago
C33_ReminderAfterUnobservedCooldown ==
    (/\ dcall.op = "should_alert"
     /\ dcall.had
     /\ dcall.pre.person_name = dcall.person
     /\ dcall.current_objects \subseteq dcall.pre.objects)
       => (dcall.ret <=> now - dcall.pre.last_seen > Cooldown)

(***************************************************************************)
(* Claims about the presence states of the cameras.                        *)
(***************************************************************************)
\* the deduplicator driven by arbitrary callers that see a person with a dog
\* or a cup alone; the sweep is run with the default ceiling and with the
\* cooldown as the ceiling
InitPresence == Init

NextPresence ==
    \/ \E d \in DedupSteps : Tick(d)
    \/ \E c \in Cameras, p \in Persons, o \in {<<"person", "dog">>, <<"cup">>} :
          should_alert(c, p, o)
    \/ \E c \in Cameras : mark_left(c)
    \/ \E max_age \in {MaxAgeSeconds, Cooldown} : cleanup_old(max_age)

SpecPresence == InitPresence /\ [][NextPresence]_vars

\* every camera but `camera' has the state it had, or none as before
OthersUnchanged(camera) ==
    \A c \in Cameras \ {camera} :
       /\ (c \in DOMAIN active_detections) <=> (c \in DOMAIN active_detections')
       /\ c \in DOMAIN active_detections =>
             active_detections'[c] = active_detections[c]

\* C34: a should_alert call that observes a person other than the one tracked
\* for its camera returns True, replaces the camera's state by the observed
\* person, the non-person classes of the call, last_seen = now and the
\* previous alert_count plus one, and leaves the other cameras' states alone.
C34_SubjectChanged ==
    [][(/\ dcall'.op = "should_alert"
        /\ dcall'.camera \in DOMAIN active_detections
        /\ active_detections[dcall'.camera].person_name # dcall'.person)
          => (/\ dcall'.ret
              /\ active_detections'[dcall'.camera] =
                    DetectionState(dcall'.person, dcall'.current_objects, now',
                       active_detections[dcall'.camera].alert_count + 1)
              /\ OthersUnchanged(dcall'.camera))]_vars

\* another person is observed with a cup where the tracked person had a dog,
\* while the other camera tracks somebody
C34_Witness ==
    /\ dcall.op = "should_alert"
    /\ dcall.branch = "changed"
    /\ dcall.pre.objects = {"dog"}
    /\ dcall.current_objects = {"cup"}
    /\ dcall.pre.last_seen < now
    /\ active_detections[dcall.camera].alert_count = MaxAlertCount
    /\ Cameras \ {dcall.camera} \subseteq DOMAIN active_detections

\* C35: a should_alert step removes no state; a mark_left step removes the
\* state of its camera and changes nothing else; a cleanup_old step removes
\* exactly the cameras whose last_seen is more than max_age seconds before
\* now and leaves the other states as they were.
C35_ExplicitEviction ==
    [][/\ dcall'.op = "should_alert" =>
             DOMAIN active_detections \subseteq DOMAIN active_detections'
       /\ dcall'.op = "mark_left" =>
             /\ DOMAIN active_detections' = DOMAIN active_detections \ {dcall'.camera}
             /\ OthersUnchanged(dcall'.camera)
       /\ dcall'.op = "cleanup_old" =>
             /\ DOMAIN active_detections' =
                   {c \in DOMAIN active_detections :
                       ~(now - active_detections[c].last_seen > dcall'.max_age)}
             /\ \A c \in DOMAIN active_detections' :
                   active_detections'[c] = active_detections[c]]_vars

\* a sweep has removed one camera, whose state was more than max_age old, and
\* kept the other, whose state was exactly max_age old
C35_Witness ==
    /\ dcall.op = "cleanup_old"
    /\ Cardinality(dcall.removed) = 1
    /\ \E c \in DOMAIN active_detections :
          now - active_detections[c].last_seen = dcall.max_age

\* C36: the alert_count of every camera's state equals the number of
\* should_alert calls that returned True for the camera since the state was
\* created, the creating call included.
C36_AlertCountCumulative ==
    \A c \in DOMAIN active_detections :
       active_detections[c].alert_count = true_returns[c].count

\* what the code guarantees: alert_count is 1 on creation and grows by one
\* exactly in the calls that find another person tracked
C36_CountsSubjectChanges ==
    [][dcall'.op = "should_alert" =>
          active_detections'[dcall'.camera].alert_count =
             CASE dcall'.branch = "arrived" -> 1
               [] dcall'.branch = "changed" ->
                     active_detections[dcall'.camera].alert_count + 1
               [] OTHER -> active_detections[dcall'.camera].alert_count]_vars

(***************************************************************************)
(* The monitor with images that arrive within a minute: cycles are run 29  *)
(* and 30 seconds after an alert, and 58 to 60 seconds after it.           *)
(***************************************************************************)
\* the clock stops this many seconds after the monitor was started
MaxRateTime == 61
\* the clock steps of these runs: the rate limit and one second less
RateSteps == {RateLimitSeconds - 1, RateLimitSeconds}

InitRate == InitLoop

NextRate ==
    \/ \E d \in RateSteps : now - started + d <= MaxRateTime /\ Tick(d)
    \/ \E c \in Cameras : new_image(c)
    \/ run_cycle

SpecRate == InitRate /\ [][NextRate]_vars

\* the number of person alerts for `camera' in a list of alerts
AlertsFor(alerts, camera) ==
    Cardinality({i \in DOMAIN alerts :
                    alerts[i].kind = "person" /\ alerts[i].camera = camera})

\* C37: a cycle queues at most one alert for a camera; it queues one exactly
\* when an image of the camera showed a person and the camera's own previous
\* alert is at least rate_limit_seconds ago or there was none, whatever was
\* queued for the other cameras; last_alert_time of the camera is the time of
\* its last queued alert.
C37_RateLimitedPerCamera ==
    [][(acall'.op = "run_cycle" /\ files' = files) =>
          \A c \in Cameras :
             LET queued == AlertsFor(acall'.queued, c)
                 allowed == \/ c \notin DOMAIN last_alert_time
                            \/ now - last_alert_time[c] >= RateLimitSeconds
                 wanted == \E i \in DOMAIN files[c] : files[c][i] \in acall'.decided
             IN  /\ queued <= 1
                 /\ queued = 1 <=> (wanted /\ allowed)
                 /\ queued = 1 => (c \in DOMAIN last_alert_time'
                                   /\ last_alert_time'[c] = now)
                 /\ queued = 0 =>
                       /\ (c \in DOMAIN last_alert_time') <=> (c \in DOMAIN last_alert_time)
                       /\ c \in DOMAIN last_alert_time =>
                             last_alert_time'[c] = last_alert_time[c]]_vars

\* an alert is queued for one camera while the alert of the other camera is
\* less than rate_limit_seconds old
C37_Witness ==
    /\ acall.op = "run_cycle"
    /\ \E c, other \in Cameras :
          /\ c # other
          /\ AlertsFor(acall.queued, c) = 1
          /\ AlertsFor(acall.queued, other) = 0
          /\ other \in DOMAIN last_alert_time
          /\ last_alert_time[other] < now
          /\ now - last_alert_time[other] < RateLimitSeconds
          /\ last_alert_time[c] = now

\* a second image of a camera shows a person less than rate_limit_seconds
\* after the camera's alert, and no alert is queued
C37_WitnessLimited ==
    /\ acall.op = "run_cycle"
    /\ \E c \in Cameras :
          /\ AlertsFor(acall.queued, c) = 0
          /\ \E i \in DOMAIN files[c] : files[c][i] \in acall.decided
          /\ now - last_alert_time[c] = RateLimitSeconds - 1

(***************************************************************************)
(* One camera of the TextOnlyMonitor over several images: people come, go  *)
(* and come back, within the minute between alerts and after it.           *)
(***************************************************************************)
\* the number of images written into the directory of the camera
MaxTextImages == 4

InitArrivals == InitLoop

NextArrivals ==
    \/ \E d \in TextSteps : Tick(d)
    \/ Len(files["sala"]) < MaxTextImages /\ image_written("sala")
    \/ \E outcome \in TextOutcomes : monitor_camera("sala", outcome)
    \/ monitor_camera_resume("sala")

SpecArrivals == InitArrivals /\ [][NextArrivals]_vars

\* the kinds of the messages sent for a camera, in order
KindsSent(camera) == [i \in DOMAIN text_sent[camera] |-> text_sent[camera][i].kind]

\* the message that a step sends for a camera, None if it sends none
SentInStep(camera) ==
    IF Len(text_sent'[camera]) > Len(text_sent[camera])
    THEN text_sent'[camera][Len(text_sent'[camera])].kind
    ELSE None

\* C38: between any two arrival messages of a camera there is a departure
\* message of the camera; a departure message is sent only when the
\* camera's person_present flag is true and leaves it false, and an arrival
\* message leaves it true, so that between two departure messages the flag
\* has been set to true.
C38_ArrivalsAlternate ==
    /\ [](\A c \in Cameras :
            \A i, j \in DOMAIN text_sent[c] :
               (i < j /\ KindsSent(c)[i] = "arrived" /\ KindsSent(c)[j] = "arrived")
                  => \E k \in (i + 1)..(j - 1) : KindsSent(c)[k] = "left")
    /\ [][\A c \in Cameras :
            /\ SentInStep(c) = "left" =>
                  /\ WasPresent(person_present, c)
                  /\ ~WasPresent(person_present', c)
            /\ SentInStep(c) = "arrived" =>
                  /\ ~WasPresent(person_present, c)
                  /\ WasPresent(person_present', c)]_vars

\* an arrival, a departure and a second arrival have been announced
C38_Witness ==
    KindsSent("sala") = <<"arrived", "left", "arrived">>

\* C39: every departure message of a camera is preceded by an arrival message
\* of the camera that is later than the camera's previous departure message.
C39_DepartureAfterArrival ==
    \A c \in Cameras :
       \A j \in DOMAIN text_sent[c] :
          KindsSent(c)[j] = "left" =>
             \E i \in 1..(j - 1) :
                /\ KindsSent(c)[i] = "arrived"
                /\ \A k \in (i + 1)..(j - 1) : KindsSent(c)[k] # "left"

\* what the code guarantees: a departure message is sent only for a camera
\* whose flag is true, whether the arrival was announced or came within the
\* minute after the last message
C39_DepartureWhenPresent ==
    [][\A c \in Cameras :
          SentInStep(c) = "left" => WasPresent(person_present, c)]_vars

(***************************************************************************)
(* Subjects and cameras whose names contain an underscore.                 *)
(***************************************************************************)
\* the number of events recorded in these runs
MaxKeyEvents == 4
KeySubjects == {"maria", "maria_rita"}
KeyCameras == {"sala", "rita_sala"}

InitKeys == InitAnalyzerAt(Tuesday9 + 3600)

NextKeys ==
    \/ \E p \in KeySubjects, c \in KeyCameras :
          /\ Len(events) < MaxKeyEvents
          /\ record_movement(c, CentreBBox, p, Monday9)
    \/ build_baseline(0)
    \/ \E p \in KeySubjects, c \in KeyCameras :
          detect_anomaly(MovementEvent(Monday9, c, p, <<100, 100>>))

SpecKeys == InitKeys /\ [][NextKeys]_vars

\* the (subject, camera, hour, weekday) bucket of an event
BucketOf(event) ==
    <<OrUnknown(event.person_id), event.camera, Hour(event.timestamp),
      Weekday(event.timestamp)>>

\* the bucket that a pattern says it describes
BucketOfPattern(pattern) ==
    <<OrUnknown(pattern.person_id), pattern.camera, pattern.hour_of_day,
      pattern.day_of_week>>

\* the number of events of a window in the bucket of `event'
InBucket(window, event) ==
    Cardinality({i \in DOMAIN window : BucketOf(window[i]) = BucketOf(event)})

\* C40: events of distinct (subject, camera, hour, weekday) buckets have
\* distinct pattern keys, and after build_baseline every bucket with enough
\* events has its own entry, whose camera, hour and weekday are those of the
\* bucket, also when the names contain an underscore.
C40_DistinctBucketsDistinctKeys ==
    (acall.op = "build_baseline" /\ acall.ret = "summary") =>
       /\ \A i, j \in DOMAIN acall.window :
             BucketOf(acall.window[i]) # BucketOf(acall.window[j]) =>
                EventKey(acall.window[i]) # EventKey(acall.window[j])
       /\ \A i \in DOMAIN acall.window :
             ~(InBucket(acall.window, acall.window[i]) < MinOccurrences) =>
                /\ EventKey(acall.window[i]) \in DOMAIN patterns
                /\ BucketOfPattern(patterns[EventKey(acall.window[i])])
                      = BucketOf(acall.window[i])

\* what the code guarantees: rsplit('_', 2) recovers the camera, the hour and
\* the weekday of the group, so every entry describes a bucket of the window
\* that has its key
C40_KeyParsingRecovers ==
    (acall.op = "build_baseline" /\ acall.ret = "summary") =>
       \A key \in DOMAIN patterns :
          \E i \in DOMAIN acall.window :
             /\ EventKey(acall.window[i]) = key
             /\ BucketOfPattern(patterns[key]) = BucketOf(acall.window[i])

=============================================================================
